---- MODULE Spec2Model ----
(***************************************************************************)
(* A model of the cxx-rust-cssparser core: the process-wide property       *)
(* definition registry, the value parser and syntax validator, the         *)
(* selector parser, the rules parser with nested blocks, the flattening of *)
(* parsed rules into style rules and the stylesheet driver.                *)
(*                                                                         *)
(* Source text is modelled after tokenisation: a stylesheet is a sequence  *)
(* of items (qualified rules, at-rules, malformed items), a block a        *)
(* sequence of body items, a declaration value a sequence of tokens and a  *)
(* selector a sequence of compounds separated by combinators.              *)
(***************************************************************************)
EXTENDS Integers, Sequences, FiniteSets, TLC

(***************************************************************************)
(* Generic sequence helpers                                                *)
(***************************************************************************)
Range(s) == {s[i] : i \in 1..Len(s)}

Rest(s, n) == SubSeq(s, n + 1, Len(s))

\* F applied to v: the arms of a match on a result computed once
With(v, F(_)) == F(v)

RECURSIVE Reverse(_)
Reverse(s) == IF s = <<>> THEN <<>> ELSE Reverse(Tail(s)) \o <<Head(s)>>

(***************************************************************************)
(* value.rs: values, dimensions, colours                                   *)
(***************************************************************************)
VInteger(n) == [vt |-> "Integer", n |-> n]

VDimension(n, unit) == [vt |-> "Dimension", n |-> n, unit |-> unit]

VString(s) == [vt |-> "String", s |-> s]

VUrl(s) == [vt |-> "Url", s |-> s]

VColor(c) == [vt |-> "Color", c |-> c]

Rgba(r, g, b, a) == [ct |-> "Rgba", rgba |-> <<r, g, b, a>>]

ColorEmpty == [ct |-> "Empty"]

ColorCustom(source, arguments) ==
    [ct |-> "Custom", source |-> source, arguments |-> arguments]

\* Color::mix builds the lazy node ColorData::Mix{first, second, amount}.
ColorMix(first, second, amount) ==
    [ct |-> "Mix", first |-> first, second |-> second, amount |-> amount]

\* ColorOperation::add, ColorOperation::set with only the alpha channel, and
\* ColorOperation::mix
OperationAdd(other) == [ot |-> "Add", other |-> other]

OperationSetAlpha(a) == [ot |-> "Set", a |-> a]

OperationMix(other, amount) == [ot |-> "Mix", other |-> other, amount |-> amount]

\* Color::modified builds the lazy node ColorData::Modified{color, operation}.
ColorModified(color, operation) ==
    [ct |-> "Modified", color |-> color, operation |-> operation]

\* impl From<Value> for Color
ColorFromValue(v) == IF v.vt = "Color" THEN v.c ELSE ColorEmpty

\* impl From<Value> for Dimension (only the amount is used by callers)
DimensionValueFromValue(v) == IF v.vt = "Dimension" THEN v.n ELSE 0

\* Value::to_string
ValueToString(v) == IF v.vt = "String" THEN v.s ELSE ""

\* Unit::parse
UnitParse(u) ==
    CASE u = "px" -> "Px"
      [] u = "em" -> "Em"
      [] u = "rem" -> "Rem"
      [] u = "pt" -> "Pt"
      [] u = "%" -> "Percent"
      [] u = "deg" -> "Degrees"
      [] u = "rad" -> "Radians"
      [] u = "s" -> "Seconds"
      [] u = "ms" -> "Milliseconds"
      [] u \in {"mm", "cm", "Q", "in", "pc", "vh", "vw", "lh", "rlh", "grad", "turn"}
            -> "Unsupported"
      [] OTHER -> "Unknown"

is_number(v) == v.unit = "Number"

is_length(v) == v.unit \in {"Px", "Em", "Rem", "Pt"}

is_percent(v) == v.unit = "Percent"

is_angle(v) == v.unit \in {"Degrees", "Radians"}

(***************************************************************************)
(* Tokens of a declaration value, as delivered by the tokenizer            *)
(***************************************************************************)
TNumber(n, int) == [t |-> "Number", n |-> n, int |-> int]

TDimension(n, u) == [t |-> "Dimension", n |-> n, u |-> u]

TPercentage(n) == [t |-> "Percentage", n |-> n]

TIdent(s) == [t |-> "Ident", s |-> s]

THash(s) == [t |-> "Hash", s |-> s]

TQuoted(s) == [t |-> "QuotedString", s |-> s]

TUrl(s) == [t |-> "Url", s |-> s]

TFunction(name, args) == [t |-> "Function", s |-> name, args |-> args]

TComma == [t |-> "Comma"]

TBang == [t |-> "Bang"]

(***************************************************************************)
(* details/mod.rs: errors.  A cssparser error is either one of the         *)
(* tokenizer's own (Basic) kinds or wraps a crate ParseError (Custom).     *)
(***************************************************************************)
Custom(kind, msg) == [cls |-> "Custom", kind |-> kind, msg |-> msg]

Basic(kind) == [cls |-> "Basic", kind |-> kind, msg |-> ""]

\* parse_error(parser, kind, message)
parse_error(kind, msg) == [ok |-> FALSE, err |-> Custom(kind, msg)]

\* unwrap_parse_error: the custom error of a failed result, if it has one
unwrap_parse_error(r) == (~r.ok) /\ r.err.cls = "Custom"

(***************************************************************************)
(* details/property/syntax.rs: the parsed syntax and its validator         *)
(***************************************************************************)
SyntaxEmpty == [st |-> "Empty"]

SyntaxUniversal == [st |-> "Universal"]

SyntaxExpression(alts) == [st |-> "Expression", alts |-> alts]

CDataType(d) == [ck |-> "DataType", d |-> d]

CKeyword(k) == [ck |-> "Keyword", k |-> k]

CSpaceSeparatedList(d) == [ck |-> "SpaceSeparatedList", d |-> d]

CCommaSeparatedList(d) == [ck |-> "CommaSeparatedList", d |-> d]

CRepeat(d, minimum, maximum) ==
    [ck |-> "Repeat", d |-> d, minimum |-> minimum, maximum |-> maximum]

CComma == [ck |-> "Comma"]

\* SyntaxAlternatives::Component / ::Group / ::Alternatives
AComponent(c) == [ak |-> "Component", comp |-> c]

AGroup(g) == [ak |-> "Group", group |-> g]

AAlternatives(gs) == [ak |-> "Alternatives", groups |-> gs]

\* SyntaxGroup::Component / ::Expression
GComponent(c) == [gk |-> "Component", comp |-> c]

GExpression(alts) == [gk |-> "Expression", alts |-> alts]

usize_max == 2147483647

VOk(remain) == [ok |-> TRUE, remain |-> remain]

VErr(msg) == [ok |-> FALSE, msg |-> msg]

validate_datatype(datatype, values) ==
    IF values = <<>> THEN VErr("Expected a datatype")
    ELSE LET value == Head(values)
             remain == Tail(values)
         IN CASE datatype = "Length" ->
                    IF value.vt = "Dimension" /\ is_length(value)
                    THEN VOk(remain) ELSE VErr("Expected Length")
              [] datatype = "Number" ->
                    IF value.vt = "Dimension" /\ is_number(value)
                    THEN VOk(remain) ELSE VErr("Expected Number")
              [] datatype = "Percentage" ->
                    IF value.vt = "Dimension" /\ is_percent(value)
                    THEN VOk(remain) ELSE VErr("Expected Percentage")
              [] datatype = "LengthPercentage" ->
                    IF value.vt = "Dimension" /\ (is_length(value) \/ is_percent(value))
                    THEN VOk(remain) ELSE VErr("Expected Length or Percentage")
              [] datatype = "String" ->
                    IF value.vt = "String" THEN VOk(remain) ELSE VErr("Expected String")
              [] datatype = "Color" ->
                    IF value.vt = "Color" THEN VOk(remain) ELSE VErr("Expected Color")
              [] datatype = "Angle" ->
                    IF value.vt = "Dimension" /\ is_angle(value)
                    THEN VOk(remain) ELSE VErr("Expected Angle")
              [] datatype = "Integer" ->
                    IF value.vt = "Integer" THEN VOk(remain) ELSE VErr("Expected Integer")
              [] datatype = "Url" ->
                    IF value.vt = "Url" THEN VOk(remain) ELSE VErr("Expected URL")
              [] OTHER -> VErr("Unhandled data type")

validate_keyword(keyword, values) ==
    IF values = <<>> THEN VErr("Expected a keyword")
    ELSE LET value == Head(values)
         IN IF value.vt = "String"
            THEN IF value.s = keyword THEN VOk(Tail(values))
                 ELSE VErr("Unexpected keyword")
            ELSE VErr("is not a keyword")

\* the while loop of validate_list: count matched so far, remain left
RECURSIVE validate_list_loop(_, _, _, _)
validate_list_loop(datatype, remain, count, maximum) ==
    IF remain = <<>> THEN [ok |-> TRUE, remain |-> remain, count |-> count]
    ELSE With(validate_datatype(datatype, remain), LAMBDA result :
            IF result.ok
            THEN IF count + 1 = maximum
                 THEN [ok |-> TRUE, remain |-> result.remain, count |-> count + 1]
                 ELSE validate_list_loop(datatype, result.remain, count + 1, maximum)
            ELSE [ok |-> FALSE, msg |-> result.msg, count |-> count])

validate_list(datatype, values, minimum, maximum) ==
    With(validate_list_loop(datatype, values, 0, maximum), LAMBDA loop :
        IF ~loop.ok THEN VErr(loop.msg)
        ELSE IF loop.count < minimum THEN VErr("Expected at least minimum values")
        ELSE IF loop.count > maximum THEN VErr("Expected at most maximum values")
        ELSE VOk(loop.remain))

validate_component(component, values, list_type) ==
    CASE component.ck = "DataType" -> validate_datatype(component.d, values)
      [] component.ck = "Keyword" -> validate_keyword(component.k, values)
      [] component.ck = "Comma" -> VOk(values)
      [] component.ck = "SpaceSeparatedList" ->
            IF list_type = "CommaSeparated"
            THEN VErr("Expected space separated list, got comma separated")
            ELSE validate_list(component.d, values, 0, usize_max)
      [] component.ck = "CommaSeparatedList" ->
            IF list_type = "SpaceSeparated"
            THEN VErr("Expected comma separated list, got space separated")
            ELSE validate_list(component.d, values, 0, usize_max)
      [] component.ck = "Repeat" ->
            IF list_type = "CommaSeparated"
            THEN VErr("Expected space separated list, got comma separated")
            ELSE validate_list(component.d, values, component.minimum, component.maximum)

RECURSIVE validate_expression(_, _, _)
RECURSIVE validate_alternatives(_, _, _)
RECURSIVE validate_group(_, _, _)
RECURSIVE validate_first_group(_, _, _)

validate_group(group, values, list_type) ==
    IF group.gk = "Component"
    THEN validate_component(group.comp, values, list_type)
    ELSE validate_expression(group.alts, values, list_type)

\* the for loop of validate_alternatives: the first group that validates wins
validate_first_group(groups, values, list_type) ==
    IF groups = <<>> THEN VErr("None of the alternatives matched")
    ELSE With(validate_group(Head(groups), values, list_type), LAMBDA result :
            IF result.ok THEN result
            ELSE validate_first_group(Tail(groups), values, list_type))

validate_alternatives(alternatives, values, list_type) ==
    CASE alternatives.ak = "Component" ->
            validate_component(alternatives.comp, values, list_type)
      [] alternatives.ak = "Group" ->
            validate_group(alternatives.group, values, list_type)
      [] alternatives.ak = "Alternatives" ->
            validate_first_group(alternatives.groups, values, list_type)

\* validate_expression accepting when the values run out before the expression
validate_expression_lenient(expression, values, list_type) ==
    IF values # <<>> /\ expression # <<>>
    THEN With(validate_alternatives(Head(expression), values, list_type), LAMBDA result :
            IF result.ok
            THEN validate_expression(Tail(expression), result.remain, list_type)
            ELSE result)
    ELSE VOk(values)

validate_expression(expression, values, list_type) ==
    IF values # <<>> /\ expression # <<>>
    THEN With(validate_alternatives(Head(expression), values, list_type), LAMBDA result :
            IF result.ok
            THEN validate_expression(Tail(expression), result.remain, list_type)
            ELSE result)
    ELSE IF expression = <<>> THEN VOk(values)
         ELSE VErr("Expected additional values")

\* validate_syntax accepting whatever values it is given
validate_syntax_accepts(syntax, values, flavor) == [ok |-> TRUE]

\* validate_syntax: Ok or the ParseError it builds
validate_syntax(syntax, values, flavor) ==
    IF syntax.st \in {"Empty", "Universal"} THEN [ok |-> TRUE]
    ELSE With(validate_expression(syntax.alts, values,
                                  IF flavor = "Single" THEN "NotAList" ELSE flavor),
              LAMBDA result :
                IF result.ok
                THEN IF result.remain = <<>> THEN [ok |-> TRUE]
                     ELSE parse_error("PropertyValueDoesNotMatchSyntax",
                                      "Received too many values")
                ELSE parse_error("PropertyValueDoesNotMatchSyntax", result.msg))

(***************************************************************************)
(* property.rs: lookups in the process-wide definition registry, a Vec of  *)
(* definitions searched front to back                                      *)
(***************************************************************************)
PropertyDefinitionRec(name, syntax, inherit, initial) ==
    [name |-> name, syntax |-> syntax, inherit |-> inherit, initial |-> initial]

RECURSIVE find_definition(_, _)
find_definition(defs, name) ==
    IF defs = <<>> THEN [some |-> FALSE]
    ELSE IF Head(defs).name = name THEN [some |-> TRUE, def |-> Head(defs)]
    ELSE find_definition(Tail(defs), name)

\* property_definition(name) evaluated against registry contents defs
property_definition(defs, name) == find_definition(defs, name)

(***************************************************************************)
(* details/property/value.rs and function.rs: the value parser             *)
(***************************************************************************)
\* the external colour tables: named and hash colours, normalised to RGBA
NamedColors ==
    [red |-> <<255, 0, 0, 255>>, blue |-> <<0, 0, 255, 255>>,
     black |-> <<0, 0, 0, 255>>, white |-> <<255, 255, 255, 255>>]

HashColors == [ff0000 |-> <<255, 0, 0, 255>>, 0000ff |-> <<0, 0, 255, 255>>]

POk(values, rest) == [ok |-> TRUE, values |-> values, rest |-> rest]

PBasic(kind) == [ok |-> FALSE, err |-> Basic(kind)]

parse_integer(tokens) ==
    IF tokens = <<>> THEN PBasic("EndOfInput")
    ELSE IF Head(tokens).t = "Number" /\ Head(tokens).int
         THEN POk(<<VInteger(Head(tokens).n)>>, Tail(tokens))
         ELSE PBasic("UnexpectedToken")

parse_number(tokens) ==
    IF tokens = <<>> THEN PBasic("EndOfInput")
    ELSE IF Head(tokens).t = "Number"
         THEN POk(<<VDimension(Head(tokens).n, "Number")>>, Tail(tokens))
         ELSE PBasic("UnexpectedToken")

parse_color(tokens) ==
    IF tokens # <<>> /\ Head(tokens).t = "Hash" /\ Head(tokens).s \in DOMAIN HashColors
    THEN POk(<<VColor([ct |-> "Rgba", rgba |-> HashColors[Head(tokens).s]])>>, Tail(tokens))
    ELSE IF tokens # <<>> /\ Head(tokens).t = "Ident" /\ Head(tokens).s \in DOMAIN NamedColors
    THEN POk(<<VColor([ct |-> "Rgba", rgba |-> NamedColors[Head(tokens).s]])>>, Tail(tokens))
    ELSE parse_error("InvalidPropertyValue", "Input could not be parsed as color")

parse_dimension(tokens) ==
    IF tokens = <<>> THEN PBasic("EndOfInput")
    ELSE LET token == Head(tokens)
         IN CASE token.t = "Dimension" ->
                    IF UnitParse(token.u) \in {"Unknown", "Unsupported"}
                    THEN parse_error("InvalidPropertyValue", "Invalid unit for dimension")
                    ELSE POk(<<VDimension(token.n, UnitParse(token.u))>>, Tail(tokens))
              [] token.t = "Percentage" ->
                    POk(<<VDimension(token.n, "Percent")>>, Tail(tokens))
              [] OTHER -> parse_error("InvalidPropertyValue", "Expected a dimension")

parse_string(tokens) ==
    IF tokens = <<>> THEN PBasic("EndOfInput")
    ELSE IF Head(tokens).t \in {"Ident", "QuotedString"}
         THEN POk(<<VString(Head(tokens).s)>>, Tail(tokens))
         ELSE parse_error("InvalidPropertyValue", "Unexpected token")

parse_url(tokens) ==
    IF tokens = <<>> THEN PBasic("EndOfInput")
    ELSE IF Head(tokens).t = "Url"
         THEN POk(<<VUrl(Head(tokens).s)>>, Tail(tokens))
         ELSE PBasic("UnexpectedToken")

\* the built-in entries of the function registry
property_functions == {"var", "mix", "custom-color"}

\* parse_syntax("<color>, <color>, <number>")
MixSyntax ==
    SyntaxExpression(<<AComponent(CDataType("Color")), AComponent(CComma),
                       AComponent(CDataType("Color")), AComponent(CComma),
                       AComponent(CDataType("Number"))>>)

\* parse_syntax("<string>, <string>#")
CustomColorSyntax ==
    SyntaxExpression(<<AComponent(CDataType("String")), AComponent(CComma),
                       AComponent(CCommaSeparatedList("String"))>>)

\* position of the first `!` delimiter, or Len + 1
RECURSIVE BangIndex(_, _)
BangIndex(tokens, i) ==
    IF i > Len(tokens) THEN i
    ELSE IF tokens[i].t = "Bang" THEN i ELSE BangIndex(tokens, i + 1)

RECURSIVE parse_values(_, _, _)
RECURSIVE parse_values_loop(_, _, _, _)
RECURSIVE parse_value_component(_, _)
RECURSIVE parse_function(_, _)
RECURSIVE call_function(_, _, _)

\* var(<custom-property-name>, <declaration-value>?)
var(args, defs) ==
    IF args = <<>> THEN PBasic("EndOfInput")
    ELSE IF Head(args).t # "Ident" THEN PBasic("UnexpectedToken")
    ELSE LET definition == property_definition(defs, Head(args).s)
             after == Tail(args)
         IN IF definition.some THEN POk(definition.def.initial, after)
            ELSE IF after = <<>>
            THEN parse_error("UnknownProperty", "No custom property was defined")
            ELSE IF Head(after).t # "Comma" THEN PBasic("UnexpectedToken")
            ELSE parse_values(SyntaxUniversal, Tail(after), defs)

\* mix(<color>, <color>, <number>)
mix(args, defs) ==
    With(parse_values(MixSyntax, args, defs), LAMBDA parsed :
        IF ~parsed.ok THEN parsed
        ELSE POk(<<VColor(ColorMix(ColorFromValue(parsed.values[1]),
                                   ColorFromValue(parsed.values[2]),
                                   DimensionValueFromValue(parsed.values[3])))>>,
                 parsed.rest))

\* custom-color(<string>, <string>#)
custom_color(args, defs) ==
    With(parse_values(CustomColorSyntax, args, defs), LAMBDA parsed :
        IF ~parsed.ok THEN parsed
        ELSE POk(<<VColor(ColorCustom(ValueToString(Head(parsed.values)),
                     [i \in 1..(Len(parsed.values) - 1) |->
                         ValueToString(parsed.values[i + 1])]))>>,
                 parsed.rest))

call_function(name, args, defs) ==
    CASE name = "var" -> var(args, defs)
      [] name = "mix" -> mix(args, defs)
      [] name = "custom-color" -> custom_color(args, defs)

\* parse_function: the callback runs in the function's nested block, which
\* must be consumed entirely
parse_function(tokens, defs) ==
    IF tokens = <<>> THEN PBasic("EndOfInput")
    ELSE IF Head(tokens).t # "Function" THEN PBasic("UnexpectedToken")
    ELSE IF Head(tokens).s \in property_functions
    THEN With(call_function(Head(tokens).s, Head(tokens).args, defs), LAMBDA output :
            IF ~output.ok THEN output
            ELSE IF output.rest # <<>> THEN PBasic("UnexpectedToken")
            ELSE POk(output.values, Tail(tokens)))
    ELSE parse_error("UnknownFunction", "Unknown function")

\* parse_value_component trying parse_number before parse_integer
parse_value_component_number_first(tokens, defs) ==
    IF parse_number(tokens).ok THEN parse_number(tokens)
    ELSE IF parse_integer(tokens).ok THEN parse_integer(tokens)
    ELSE IF parse_color(tokens).ok THEN parse_color(tokens)
    ELSE IF parse_dimension(tokens).ok THEN parse_dimension(tokens)
    ELSE IF parse_string(tokens).ok THEN parse_string(tokens)
    ELSE IF parse_url(tokens).ok THEN parse_url(tokens)
    ELSE With(parse_function(tokens, defs), LAMBDA function_result :
            IF function_result.ok THEN function_result
            ELSE IF unwrap_parse_error(function_result)
                    /\ function_result.err.kind = "UnknownFunction"
            THEN function_result
            ELSE parse_error("InvalidPropertyValue", "Could not parse input"))

\* parse_value_component handing on every custom error of the function
parse_value_component_propagates(tokens, defs) ==
    IF parse_integer(tokens).ok THEN parse_integer(tokens)
    ELSE IF parse_number(tokens).ok THEN parse_number(tokens)
    ELSE IF parse_color(tokens).ok THEN parse_color(tokens)
    ELSE IF parse_dimension(tokens).ok THEN parse_dimension(tokens)
    ELSE IF parse_string(tokens).ok THEN parse_string(tokens)
    ELSE IF parse_url(tokens).ok THEN parse_url(tokens)
    ELSE With(parse_function(tokens, defs), LAMBDA function_result :
            IF function_result.ok THEN function_result
            ELSE IF unwrap_parse_error(function_result)
            THEN function_result
            ELSE parse_error("InvalidPropertyValue", "Could not parse input"))

\* PARSE_FUNCTIONS tried in order under try_parse, then parse_function
parse_value_component(tokens, defs) ==
    IF parse_integer(tokens).ok THEN parse_integer(tokens)
    ELSE IF parse_number(tokens).ok THEN parse_number(tokens)
    ELSE IF parse_color(tokens).ok THEN parse_color(tokens)
    ELSE IF parse_dimension(tokens).ok THEN parse_dimension(tokens)
    ELSE IF parse_string(tokens).ok THEN parse_string(tokens)
    ELSE IF parse_url(tokens).ok THEN parse_url(tokens)
    ELSE With(parse_function(tokens, defs), LAMBDA function_result :
            IF function_result.ok THEN function_result
            ELSE IF unwrap_parse_error(function_result)
                    /\ function_result.err.kind = "UnknownFunction"
            THEN function_result
            ELSE parse_error("InvalidPropertyValue", "Could not parse input"))

\* the while loop of parse_values over the tokens before `!`
parse_values_loop(tokens, defs, values, comma_separated) ==
    IF tokens = <<>>
    THEN [ok |-> TRUE, values |-> values, comma_separated |-> comma_separated]
    ELSE With(parse_value_component(tokens, defs), LAMBDA result :
            IF ~result.ok THEN result
            ELSE IF result.rest # <<>> /\ Head(result.rest).t = "Comma"
            THEN parse_values_loop(Tail(result.rest), defs,
                                   values \o result.values, TRUE)
            ELSE parse_values_loop(result.rest, defs,
                                   values \o result.values, comma_separated))

\* the list flavour decided on the comma flag before the number of values
ListFlavor_comma_first(values, comma_separated) ==
    IF comma_separated THEN "CommaSeparated"
    ELSE IF Len(values) = 1 THEN "Single"
    ELSE "SpaceSeparated"

\* the list flavour parse_values decides on
ListFlavor(values, comma_separated) ==
    IF Len(values) = 1 THEN "Single"
    ELSE IF comma_separated THEN "CommaSeparated"
    ELSE "SpaceSeparated"

\* parse_values: rest is what is left in the caller's parser (from `!` on)
parse_values(syntax, tokens, defs) ==
    With(parse_values_loop(SubSeq(tokens, 1, BangIndex(tokens, 1) - 1), defs, <<>>, FALSE),
         LAMBDA result :
            IF ~result.ok THEN result
            ELSE With(validate_syntax(syntax, result.values,
                                      ListFlavor(result.values, result.comma_separated)),
                      LAMBDA validation_result :
                        IF validation_result.ok
                        THEN [ok |-> TRUE, values |-> result.values,
                              flavor |-> ListFlavor(result.values, result.comma_separated),
                              rest |-> SubSeq(tokens, BangIndex(tokens, 1), Len(tokens))]
                        ELSE validation_result))

(***************************************************************************)
(* selector.rs: selectors and Selector::combine                            *)
(***************************************************************************)
\* SelectorPart::new_with_empty / new_with_value
new_with_empty(kind) == [kind |-> kind, value |-> ""]

new_with_value(kind, value) == [kind |-> kind, value |-> value]

\* the indices (ascending) of the RelativeParent parts
RECURSIVE relative_indices(_, _)
relative_indices(parts, i) ==
    IF i > Len(parts) THEN <<>>
    ELSE IF parts[i].kind = "RelativeParent"
         THEN <<i>> \o relative_indices(parts, i + 1)
         ELSE relative_indices(parts, i + 1)

\* the replacement loop: remove the part at index + offset and splice the
\* parent's parts in its place
RECURSIVE combine_splice(_, _, _, _)
combine_splice(parts, indices, offset, second) ==
    IF indices = <<>> THEN parts
    ELSE LET i == Head(indices) + offset
         IN combine_splice(SubSeq(parts, 1, i - 1) \o second \o Rest(parts, i),
                           Tail(indices), offset + Len(second) - 1, second)

\* Selector::combine replacing only the first RelativeParent
combine_first_only(first, second) ==
    IF second # <<>>
    THEN IF relative_indices(first, 1) = <<>>
         THEN first \o second
         ELSE combine_splice(first, <<Head(relative_indices(first, 1))>>, 0, second)
    ELSE first

\* Selector::combine(first, second) on the parts of the two selectors
combine(first, second) ==
    IF second # <<>>
    THEN IF relative_indices(first, 1) = <<>>
         THEN first \o second
         ELSE combine_splice(first, relative_indices(first, 1), 0, second)
    ELSE first

(***************************************************************************)
(* details/selectorparser.rs.  A source selector is the sequence of its    *)
(* components in source order; the selectors library hands them back in    *)
(* raw parse order, each compound reversed between its combinators.        *)
(***************************************************************************)
SComp(sk, s) == [sk |-> sk, s |-> s]

SCombinator(c) == [sk |-> "Combinator", s |-> c]

HasParentSelector(entry) == \E i \in 1..Len(entry) : entry[i].sk = "ParentSelector"

\* the library in nesting mode prefixes `& ` to a selector without `&`
NestingPrefix(entry, relative) ==
    IF relative = "Nested" /\ ~HasParentSelector(entry)
    THEN <<SComp("ParentSelector", ""), SCombinator("Descendant")>> \o entry
    ELSE entry

\* index of the first combinator at or after i, or Len + 1
RECURSIVE NextCombinator(_, _)
NextCombinator(entry, i) ==
    IF i > Len(entry) THEN i
    ELSE IF entry[i].sk = "Combinator" THEN i ELSE NextCombinator(entry, i + 1)

\* iter_raw_parse_order_from(0): compounds in source order, the simple
\* selectors of each compound reversed
RECURSIVE iter_raw_parse_order(_)
iter_raw_parse_order(entry) ==
    IF entry = <<>> THEN <<>>
    ELSE LET c == NextCombinator(entry, 1)
         IN Reverse(SubSeq(entry, 1, c - 1))
            \o (IF c <= Len(entry)
                THEN <<entry[c]>> \o iter_raw_parse_order(Rest(entry, c))
                ELSE <<>>)

\* SelectorList::parse fails on an empty list, an empty selector and a
\* dangling combinator
SelectorListInvalid(prelude) ==
    \/ prelude = <<>>
    \/ \E i \in 1..Len(prelude) :
          \/ prelude[i] = <<>>
          \/ prelude[i][Len(prelude[i])].sk = "Combinator"

\* the match arms that turn one library component into a part
ComponentPart(part) ==
    CASE part.sk = "LocalName" -> <<new_with_value("Type", part.s)>>
      [] part.sk = "ID" -> <<new_with_value("Id", part.s)>>
      [] part.sk = "Class" -> <<new_with_value("Class", part.s)>>
      [] part.sk = "NonTSPseudoClass" -> <<new_with_value("PseudoClass", part.s)>>
      [] part.sk = "ParentSelector" -> <<new_with_empty("RelativeParent")>>
      [] part.sk = "Root" -> <<new_with_empty("DocumentRoot")>>
      [] part.sk = "ExplicitUniversalType" -> <<new_with_empty("AnyElement")>>
      [] part.sk = "AttributeInNoNamespaceExists" ->
            <<[kind |-> "Attribute", value |-> "", name |-> part.s,
               operator |-> "Exists"]>>
      [] OTHER -> <<>>

CombinatorPart(part) ==
    CASE part.s = "Descendant" -> <<new_with_empty("DescendantCombinator")>>
      [] part.s = "Child" -> <<new_with_empty("ChildCombinator")>>
      [] OTHER -> <<>>

\* the loop over one selector's raw components: parts buffers the current
\* compound, selector is the output so far
RECURSIVE parse_entry(_, _, _)
\* the loop pushing each part at the end of the buffer
parse_entry_appends(raw, selector, parts) ==
    IF raw = <<>> THEN selector \o parts
    ELSE IF Head(raw).sk = "Combinator"
    THEN parse_entry(Tail(raw), selector \o parts \o CombinatorPart(Head(raw)), <<>>)
    ELSE parse_entry(Tail(raw), selector, parts \o ComponentPart(Head(raw)))

parse_entry(raw, selector, parts) ==
    IF raw = <<>> THEN selector \o parts
    ELSE LET part == Head(raw)
         IN IF part.sk = "Combinator"
            THEN parse_entry(Tail(raw), selector \o parts \o CombinatorPart(part), <<>>)
            ELSE parse_entry(Tail(raw), selector, ComponentPart(part) \o parts)

\* SelectorParser::parse: one selector (its parts) per prelude entry
SelectorParser_parse(prelude, relative) ==
    IF SelectorListInvalid(prelude)
    THEN parse_error("InvalidSelectors", "Selectors failed to parse")
    ELSE [ok |-> TRUE,
          selectors |-> [i \in 1..Len(prelude) |->
              parse_entry(iter_raw_parse_order(NestingPrefix(prelude[i], relative)),
                          <<>>, <<>>)]]

(***************************************************************************)
(* stylerule.rs: StyleRule::from_parsed_rule                               *)
(***************************************************************************)
ParsedRule(selectors, properties, nested_rules) ==
    [selectors |-> selectors, properties |-> properties,
     nested_rules |-> nested_rules]

StyleRule(selector, properties) == [selector |-> selector, properties |-> properties]

RECURSIVE from_parsed_rule(_)
RECURSIVE from_selectors(_, _)
RECURSIVE from_nested_rules(_, _)

\* the loop over nested_rules emitting the last nested rule first
from_nested_rules_reversed(nested_rules, selector) ==
    IF nested_rules = <<>> THEN <<>>
    ELSE LET nested == from_parsed_rule(Head(nested_rules))
         IN from_nested_rules(Tail(nested_rules), selector)
            \o [i \in 1..Len(nested) |->
                   StyleRule(combine(nested[i].selector, selector), nested[i].properties)]

\* the loop over nested_rules for one enclosing selector
from_nested_rules(nested_rules, selector) ==
    IF nested_rules = <<>> THEN <<>>
    ELSE With(from_parsed_rule(Head(nested_rules)), LAMBDA nested :
            [i \in 1..Len(nested) |->
                StyleRule(combine(nested[i].selector, selector), nested[i].properties)])
         \o from_nested_rules(Tail(nested_rules), selector)

\* the loop over parsed.selectors
from_selectors(parsed, selectors) ==
    IF selectors = <<>> THEN <<>>
    ELSE LET selector == Head(selectors)
         IN (IF selector = <<>> /\ parsed.properties = <<>>
             THEN <<>>
             ELSE <<StyleRule(selector, parsed.properties)>>
                  \o from_nested_rules(parsed.nested_rules, selector))
            \o from_selectors(parsed, Tail(selectors))

from_parsed_rule(parsed) == from_selectors(parsed, parsed.selectors)

(***************************************************************************)
(* property.rs: add_property_definition on registry contents defs          *)
(***************************************************************************)
\* add_property_definition without the early return: a definition of the
\* same name is replaced
add_property_definition_overwrite(defs, definition) ==
    IF find_definition(defs, definition.name).some
    THEN [defs |-> [i \in 1..Len(defs) |->
                       IF defs[i].name = definition.name THEN definition ELSE defs[i]],
          ret |-> TRUE]
    ELSE [defs |-> Append(defs, definition), ret |-> TRUE]

add_property_definition(defs, definition) ==
    IF find_definition(defs, definition.name).some
    THEN [defs |-> defs, ret |-> FALSE]
    ELSE [defs |-> Append(defs, definition), ret |-> TRUE]

(***************************************************************************)
(* details/property/definitionparser.rs: the body of @property             *)
(***************************************************************************)
\* parse_syntax on the syntax strings of the model's alphabet
SyntaxStrings ==
    [universal |-> SyntaxUniversal,
     color |-> SyntaxExpression(<<AComponent(CDataType("Color"))>>),
     lengths |-> SyntaxExpression(<<AComponent(CSpaceSeparatedList("Length"))>>)]
    @@ ("<length> <length>" :>
            SyntaxExpression(<<AComponent(CDataType("Length")),
                               AComponent(CDataType("Length"))>>))
    @@ ("<length>+ auto" :>
            SyntaxExpression(<<AComponent(CSpaceSeparatedList("Length")),
                               AComponent(CKeyword("auto"))>>))
    @@ ("auto <length>+" :>
            SyntaxExpression(<<AComponent(CKeyword("auto")),
                               AComponent(CSpaceSeparatedList("Length"))>>))
    @@ ("<length>{1,2} auto" :>
            SyntaxExpression(<<AComponent(CRepeat("Length", 1, 2)),
                               AComponent(CKeyword("auto"))>>))
    @@ ("<length>{2,3}" :>
            SyntaxExpression(<<AComponent(CRepeat("Length", 2, 3))>>))
    @@ ("<length>#" :>
            SyntaxExpression(<<AComponent(CCommaSeparatedList("Length"))>>))
    @@ ("<length>{1,2}" :>
            SyntaxExpression(<<AComponent(CRepeat("Length", 1, 2))>>))
    @@ ("<length># auto" :>
            SyntaxExpression(<<AComponent(CCommaSeparatedList("Length")),
                               AComponent(CKeyword("auto"))>>))
    @@ ("auto | <length>" :>
            SyntaxExpression(<<AAlternatives(<<GComponent(CKeyword("auto")),
                                               GComponent(CDataType("Length"))>>)>>))
    @@ ("(auto | <length>) | (<length> <length>)" :>
            SyntaxExpression(<<AAlternatives(<<
                GExpression(<<AAlternatives(<<GComponent(CKeyword("auto")),
                                              GComponent(CDataType("Length"))>>)>>),
                GExpression(<<AComponent(CDataType("Length")),
                              AComponent(CDataType("Length"))>>)>>)>>))
    @@ ("<integer>" :> SyntaxExpression(<<AComponent(CDataType("Integer"))>>))
    @@ ("<number>" :> SyntaxExpression(<<AComponent(CDataType("Number"))>>))

parse_syntax(s) ==
    IF s \in DOMAIN SyntaxStrings THEN [ok |-> TRUE, syntax |-> SyntaxStrings[s]]
    ELSE [ok |-> FALSE]

Decl(name, tokens) == [bk |-> "Declaration", name |-> name, tokens |-> tokens]

\* the "syntax" arm: the syntax string named by the first token
definition_syntax_string(tokens, defs) ==
    IF tokens = <<>> THEN PBasic("EndOfInput")
    ELSE IF Head(tokens).t = "QuotedString"
    THEN [ok |-> TRUE, s |-> Head(tokens).s, rest |-> Tail(tokens)]
    ELSE IF Head(tokens).t # "Function"
    THEN [ok |-> TRUE, s |-> "universal", rest |-> Tail(tokens)]
    ELSE IF Head(tokens).s # "var"
    THEN parse_error("InvalidPropertyDefinition",
                     "Function is not supported in property definitions")
    ELSE With(var(Head(tokens).args, defs), LAMBDA result :
            IF ~result.ok THEN result
            ELSE IF result.rest # <<>> THEN PBasic("UnexpectedToken")
            ELSE IF Len(result.values) # 1
            THEN parse_error("InvalidPropertyDefinition",
                             "Expected exactly one value for property syntax")
            ELSE IF result.values[1].vt = "String"
            THEN [ok |-> TRUE, s |-> result.values[1].s, rest |-> Tail(tokens)]
            ELSE parse_error("InvalidPropertyDefinition",
                             "Expected a string value for property syntax"))

\* the match on the declaration name: the updated definition and the
\* unconsumed input, or an error
definition_parse_arm(definition, name, tokens, defs) ==
    CASE name = "syntax" ->
            With(definition_syntax_string(tokens, defs), LAMBDA str :
                IF ~str.ok THEN str
                ELSE IF parse_syntax(str.s).ok
                THEN [ok |-> TRUE, rest |-> str.rest,
                      definition |->
                          [definition EXCEPT !.syntax = parse_syntax(str.s).syntax]]
                ELSE parse_error("InvalidPropertyDefinition",
                                 "Expected string for property syntax"))
      [] name = "inherits" ->
            IF tokens = <<>> THEN PBasic("EndOfInput")
            ELSE IF Head(tokens).t # "Ident" THEN PBasic("UnexpectedToken")
            ELSE IF Head(tokens).s \in {"true", "false"}
            THEN [ok |-> TRUE, rest |-> Tail(tokens),
                  definition |-> [definition EXCEPT !.inherit = (Head(tokens).s = "true")]]
            ELSE parse_error("InvalidPropertyDefinition", "Unexpected value for inherit")
      [] name = "initial-value" ->
            With(parse_values(definition.syntax, tokens, defs), LAMBDA value_result :
                IF value_result.ok
                THEN [ok |-> TRUE, rest |-> value_result.rest,
                      definition |-> [definition EXCEPT !.initial = value_result.values]]
                ELSE value_result)
      [] OTHER -> [ok |-> TRUE, rest |-> tokens, definition |-> definition]

\* PropertyDefinitionParser::parse_value
definition_parse_value(definition, name, tokens, defs) ==
    With(definition_parse_arm(definition, name, tokens, defs), LAMBDA arm :
        IF ~arm.ok THEN arm
        ELSE IF arm.definition.name = ""
        THEN parse_error("InvalidPropertyDefinition",
                         "'name' is required for property definitions")
        ELSE IF arm.definition.syntax.st = "Empty"
        THEN parse_error("InvalidPropertyDefinition",
                         "'syntax' is required for property definitions")
        ELSE IF arm.rest # <<>>
        THEN parse_error("InvalidPropertyDefinition", "Unexpected trailing characters")
        ELSE [ok |-> TRUE, definition |-> arm.definition])

\* the while loop of parse_property_definition over the block's declarations
RECURSIVE definition_loop(_, _, _)
definition_loop(definition, decls, defs) ==
    IF decls = <<>> THEN [ok |-> TRUE, definition |-> definition]
    ELSE With(definition_parse_value(definition, Head(decls).name,
                                     Head(decls).tokens, defs),
              LAMBDA item :
                IF ~item.ok THEN item
                ELSE definition_loop(item.definition, Tail(decls), defs))

parse_property_definition(decls, name, defs) ==
    definition_loop(PropertyDefinitionRec(name, SyntaxEmpty, FALSE, <<>>), decls, defs)

(***************************************************************************)
(* details/rulesparser.rs: declarations, qualified rules and at-rules      *)
(***************************************************************************)
\* names of the model's alphabet that begin with `--`
DashedNames == {"--c", "--d"}

starts_with_dashes(name) == name \in DashedNames

Property(name, definition, values) ==
    [name |-> name, definition |-> definition, values |-> values]

ResProperty(p) == [ok |-> TRUE, kind |-> "Property", property |-> p]

ResRule(r) == [ok |-> TRUE, kind |-> "Rule", rule |-> r]

ResDefinition(d) == [ok |-> TRUE, kind |-> "PropertyDefinition", definition |-> d]

ResImport(url) == [ok |-> TRUE, kind |-> "Import", url |-> url]

\* parse_value returning an unregistered `--` declaration as a property of
\* the rule
parse_value_keeps_custom(name, tokens, defs) ==
    IF ~property_definition(defs, name).some /\ ~starts_with_dashes(name)
    THEN parse_error("UnknownProperty", "No definition for property")
    ELSE With(parse_values(IF property_definition(defs, name).some
                           THEN property_definition(defs, name).def.syntax
                           ELSE SyntaxUniversal,
                           tokens, defs),
              LAMBDA values_result :
                IF ~values_result.ok THEN values_result
                ELSE IF values_result.rest # <<>> THEN PBasic("UnexpectedToken")
                ELSE ResProperty(Property(name,
                        IF property_definition(defs, name).some
                        THEN property_definition(defs, name).def
                        ELSE PropertyDefinitionRec(name, SyntaxUniversal, FALSE,
                                                   values_result.values),
                        values_result.values)))

\* DeclarationParser::parse_value of RulesParser; the declaration's input
\* must be consumed entirely
parse_value(name, tokens, defs) ==
    IF ~property_definition(defs, name).some /\ ~starts_with_dashes(name)
    THEN parse_error("UnknownProperty", "No definition for property")
    ELSE With(parse_values(IF property_definition(defs, name).some
                           THEN property_definition(defs, name).def.syntax
                           ELSE SyntaxUniversal,
                           tokens, defs),
              LAMBDA values_result :
                IF ~values_result.ok THEN values_result
                ELSE IF values_result.rest # <<>> THEN PBasic("UnexpectedToken")
                ELSE IF property_definition(defs, name).some
                THEN ResProperty(Property(name, property_definition(defs, name).def,
                                          values_result.values))
                ELSE ResDefinition(PropertyDefinitionRec(name, SyntaxUniversal, FALSE,
                                                         values_result.values)))

QRule(prelude, body) ==
    [bk |-> "Rule", prelude |-> prelude, hasBlock |-> TRUE, body |-> body]

\* a qualified rule's prelude that is not followed by a block
NoBlock(prelude) ==
    [bk |-> "Rule", prelude |-> prelude, hasBlock |-> FALSE, body |-> <<>>]

AtProperty(name, decls) ==
    [bk |-> "AtProperty", name |-> name, hasBlock |-> TRUE, decls |-> decls]

AtPropertyNoBlock(name) ==
    [bk |-> "AtProperty", name |-> name, hasBlock |-> FALSE, decls |-> <<>>]

AtImport(url) == [bk |-> "AtImport", url |-> url]

AtOther(name) == [bk |-> "AtOther", name |-> name]

RECURSIVE parse_item(_, _, _)
RECURSIVE parse_block_loop(_, _, _, _)

\* AtRuleParser: parse_prelude, then parse_block or rule_without_block
parse_at_rule(item, defs) ==
    CASE item.bk = "AtProperty" ->
            IF item.name = "" THEN PBasic("UnexpectedToken")
            ELSE IF ~item.hasBlock THEN PBasic("UnexpectedToken")
            ELSE With(parse_property_definition(item.decls, item.name, defs),
                      LAMBDA result :
                        IF result.ok THEN ResDefinition(result.definition)
                        ELSE parse_error("InvalidPropertyDefinition",
                                         "Invalid definition"))
      [] item.bk = "AtImport" -> ResImport(item.url)
      [] OTHER -> parse_error("UnsupportedAtRule", "Unsupported @-rule")

\* the loop going on to the next entry after an entry that failed
parse_block_loop_continue(body, defs, properties, nested) ==
    IF body = <<>>
    THEN [res |-> [ok |-> TRUE, properties |-> properties, nested |-> nested],
          defs |-> defs]
    ELSE With(parse_item(Head(body), defs, FALSE), LAMBDA entry :
            parse_block_loop(Tail(body),
                IF entry.res.ok /\ entry.res.kind = "PropertyDefinition"
                THEN add_property_definition(entry.defs, entry.res.definition).defs
                ELSE entry.defs,
                IF entry.res.ok /\ entry.res.kind = "Property"
                THEN Append(properties, entry.res.property) ELSE properties,
                IF entry.res.ok /\ entry.res.kind = "Rule"
                THEN Append(nested, entry.res.rule) ELSE nested))

\* the for loop of QualifiedRuleParser::parse_block over the body's entries;
\* the registry is threaded through because entries register definitions
parse_block_loop(body, defs, properties, nested) ==
    IF body = <<>>
    THEN [res |-> [ok |-> TRUE, properties |-> properties, nested |-> nested],
          defs |-> defs]
    ELSE With(parse_item(Head(body), defs, FALSE), LAMBDA entry :
            IF ~entry.res.ok THEN entry
            ELSE IF entry.res.kind = "Import"
            THEN [res |-> parse_error("UnsupportedAtRule",
                                      "@import can only be used at top level"),
                  defs |-> entry.defs]
            ELSE parse_block_loop(Tail(body),
                    IF entry.res.kind = "PropertyDefinition"
                    THEN add_property_definition(entry.defs, entry.res.definition).defs
                    ELSE entry.defs,
                    IF entry.res.kind = "Property"
                    THEN Append(properties, entry.res.property) ELSE properties,
                    IF entry.res.kind = "Rule"
                    THEN Append(nested, entry.res.rule) ELSE nested))

\* one item of a rule list: a declaration, a qualified rule (parse_prelude,
\* then parse_block on its block) or an at-rule
parse_item(item, defs, top_level) ==
    CASE item.bk = "Declaration" ->
            [res |-> parse_value(item.name, item.tokens, defs), defs |-> defs]
      [] item.bk = "Rule" ->
            IF ~item.hasBlock THEN [res |-> PBasic("UnexpectedToken"), defs |-> defs]
            ELSE With(SelectorParser_parse(item.prelude,
                                           IF top_level THEN "No" ELSE "Nested"),
                      LAMBDA prelude :
                        IF ~prelude.ok THEN [res |-> prelude, defs |-> defs]
                        ELSE With(parse_block_loop(item.body, defs, <<>>, <<>>),
                                  LAMBDA block :
                                    IF block.res.ok
                                    THEN [res |-> ResRule(ParsedRule(prelude.selectors,
                                                      block.res.properties,
                                                      block.res.nested)),
                                          defs |-> block.defs]
                                    ELSE block))
      [] OTHER -> [res |-> parse_at_rule(item, defs), defs |-> defs]

(***************************************************************************)
(* Inputs: the alphabet of selectors, declarations, items and files        *)
(***************************************************************************)
MaxItems == 1

MaxCalls == 2

MaxDepth == 3

ColorSyntax == SyntaxStrings["color"]

LengthsSyntax == SyntaxStrings["lengths"]

\* definitions an embedder registers through add_property_definition
DefinitionInputs ==
    {PropertyDefinitionRec("test", ColorSyntax, FALSE, <<>>),
     PropertyDefinitionRec("test", LengthsSyntax, TRUE, <<>>),
     PropertyDefinitionRec("padding", LengthsSyntax, FALSE, <<>>)}

Names == {"test", "padding", "bogus"} \cup DashedNames

SelA == <<SComp("LocalName", "a")>>

SelB == <<SComp("Class", "b"), SComp("NonTSPseudoClass", "hovered")>>

\* `::before`: a component the selector parser does not implement
SelPseudoElement == <<SComp("PseudoElement", "before")>>

SelN == <<SComp("LocalName", "n"), SCombinator("Child"), SComp("ID", "i")>>

SelAmpN == <<SComp("ParentSelector", ""), SCombinator("Descendant")>> \o SelN

SelAmpClass == <<SComp("ParentSelector", ""), SComp("Class", "c")>>

SelM == <<SComp("LocalName", "m")>>

DeclRed == Decl("test", <<TIdent("red")>>)

DeclBlue == Decl("test", <<TIdent("blue")>>)

DeclPaddingRed == Decl("padding", <<TIdent("red")>>)

DeclPadding == Decl("padding", <<TDimension(4, "px"), TDimension(2, "em")>>)

DeclBogus == Decl("bogus", <<TIdent("red")>>)

DeclBadUnit == Decl("test", <<TDimension(4, "zz")>>)

DeclCustom == Decl("--c", <<THash("ff0000")>>)

DeclVar == Decl("test", <<TFunction("var", <<TIdent("--c")>>)>>)

DeclImportant == Decl("test", <<TIdent("red"), TBang, TIdent("important")>>)

NestedBlue == QRule(<<SelN>>, <<DeclBlue>>)

NestedAmpBlue == QRule(<<SelAmpN>>, <<DeclBlue>>)

NestedDeep == QRule(<<SelAmpClass, SelM>>, <<DeclRed, QRule(<<SelM>>, <<DeclBlue>>)>>)

\* the qualified rules and at-rules an embedder-supplied text is made of
TopItems ==
    {QRule(<<SelA>>, <<>>),
     QRule(<<SelA, SelB>>, <<DeclRed, NestedBlue>>),
     QRule(<<SelA, SelB>>, <<DeclRed, NestedAmpBlue>>),
     QRule(<<SelA>>, <<DeclPaddingRed>>),
     QRule(<<SelB>>, <<DeclRed, DeclPaddingRed>>),
     QRule(<<SelA>>, <<DeclBogus, DeclCustom>>),
     QRule(<<SelA>>, <<DeclBadUnit>>),
     QRule(<<SelA>>, <<DeclRed, QRule(<<SelN>>, <<DeclBogus>>)>>),
     QRule(<<SelA>>, <<DeclCustom, DeclVar>>),
     QRule(<<SelB>>, <<DeclCustom, DeclBogus>>),
     QRule(<<SelA>>, <<DeclImportant>>),
     QRule(<<SelA>>, <<DeclPadding, NestedDeep, NestedBlue>>),
     QRule(<<SelPseudoElement, SelA>>, <<NestedDeep>>),
     QRule(<<SelPseudoElement>>, <<DeclRed, NestedBlue>>),
     QRule(<<SelPseudoElement>>, <<DeclRed, NestedAmpBlue>>),
     QRule(<<SelPseudoElement>>, <<>>),
     QRule(<<SelA>>, <<AtImport("ok.css")>>),
     QRule(<<>>, <<DeclRed>>),
     NoBlock(<<SelA>>),
     AtProperty("--d", <<Decl("syntax", <<TQuoted("color")>>),
                         Decl("initial-value", <<TIdent("blue")>>)>>),
     AtProperty("--d", <<Decl("inherits", <<TIdent("true")>>)>>),
     AtPropertyNoBlock("--d"), AtOther("media"),
     AtImport("ok.css"), AtImport("bad.css"), AtImport("missing.css"),
     AtImport("chain.css"), AtImport("wrap.css")}

\* the files under root_path
Files ==
    [ok |-> <<QRule(<<SelM>>, <<>>)>>,
     bad |-> <<QRule(<<SelM>>, <<>>), QRule(<<SelM>>, <<DeclBogus>>)>>,
     chain |-> <<QRule(<<SelA>>, <<>>), QRule(<<SelB>>, <<DeclBadUnit>>),
                 AtImport("bad.css"), QRule(<<SelB>>, <<>>)>>,
     wrap |-> <<QRule(<<SelA>>, <<>>), AtImport("ok.css"), QRule(<<SelB>>, <<>>)>>,
     loop |-> <<QRule(<<SelM>>, <<>>), AtImport("loop.css")>>]

FileNames == {"ok.css", "bad.css", "chain.css", "wrap.css", "loop.css", "missing.css"}

\* File::open and read_to_string on root_path.join(name), root_path empty
FileKey(name) ==
    CASE name = "ok.css" -> "ok"
      [] name = "bad.css" -> "bad"
      [] name = "chain.css" -> "chain"
      [] name = "wrap.css" -> "wrap"
      [] name = "loop.css" -> "loop"
      [] OTHER -> ""

FileExists(name) == FileKey(name) \in DOMAIN Files

FileItems(name) == Files[FileKey(name)]

\* every item a parse can meet: in the embedder's text or in a file
Items == TopItems \cup UNION {Range(Files[k]) : k \in DOMAIN Files}

Origins == {"T"}

(***************************************************************************)
(* stylesheet.rs: the StyleSheet driver                                    *)
(***************************************************************************)
VARIABLES
    definitions,  \* the property definition registry (process-wide)
    rules,        \* StyleSheet::rules
    errors,       \* StyleSheet::errors
    stack,        \* the parse_string invocations in progress, innermost last
    result,       \* what the invocation that returned last returned
    calls,        \* number of parse_string / parse_file calls made by the embedder
    budget,       \* items of embedder-supplied text still to be read
    op,           \* the step taken last
    last,         \* the item read last, with the state it was read in
    threads,      \* per thread: where it is inside a registry call, and its return
    lock          \* the RwLock around the registry: its writer and its readers

vars == <<definitions, rules, errors, stack, result, calls, budget, op, last,
          threads, lock>>

MaxThreads == 3

Threads == 1..MaxThreads

\* a thread outside the registry functions
NoCall == [pc |-> "idle"]

\* RwLock::new: no writer (0), no readers
Unlocked == [writer |-> 0, readers |-> {}]

\* ParseError as stored in the errors list
ParseError(kind, message, file) == [kind |-> kind, message |-> message, file |-> file]

\* one invocation of parse_string: its origin, the rest of its input (fixed
\* for a file, read item by item for a string), its local rules and errors,
\* and whether it is inside self.parse_file(name)?
Frame(origin, fromFile, items) ==
    [origin |-> origin, fromFile |-> fromFile, items |-> items,
     rules |-> <<>>, errors |-> <<>>, waiting |-> FALSE]

NoResult ==
    [fn |-> "", origin |-> "", st |-> "None", kind |-> "", file |-> "",
     message |-> [multiple |-> FALSE, lines |-> <<>>]]

OkResult(origin) == [NoResult EXCEPT !.fn = "parse_string", !.origin = origin, !.st = "Ok"]

ErrResult(fn, origin, kind, file, message) ==
    [fn |-> fn, origin |-> origin, st |-> "Err", kind |-> kind, file |-> file,
     message |-> message]

PanicResult == [NoResult EXCEPT !.st = "Panic"]

\* the thread overflowed its stack and the process was aborted
OverflowResult == [NoResult EXCEPT !.st = "Overflow"]

NoItem == [item |-> AtOther(""), defs |-> <<>>, nrules |-> 0, nerrors |-> 0]

\* impl Display for ParseError: some kinds print no message
Display(error) ==
    [file |-> error.file, kind |-> error.kind,
     msg |-> IF error.kind \in {"Unspecified", "Unimplemented", "UnexpectedEndOfInput",
                                "InvalidQualifiedRule"}
             THEN "" ELSE error.message]

\* the message of the aggregated error built at the end of parse_string
AggregateMessage(errs) ==
    IF Len(errs) = 1
    THEN [multiple |-> FALSE,
          lines |-> <<[file |-> "", kind |-> "", msg |-> errs[1].message]>>]
    ELSE [multiple |-> TRUE, lines |-> [i \in 1..Len(errs) |-> Display(errs[i])]]

\* the io::Error message of a failed File::open
FileErrorResult(fn, origin, name) ==
    ErrResult(fn, origin, "FileError", name,
              [multiple |-> FALSE,
               lines |-> <<[file |-> "", kind |-> "", msg |-> "No such file or directory"]>>])

Init ==
    /\ definitions = <<>>
    /\ rules = <<>>
    /\ errors = <<>>
    /\ stack = <<>>
    /\ result = NoResult
    /\ calls = 0
    /\ budget = MaxItems
    /\ op = "init"
    /\ last = NoItem
    /\ threads = [t \in Threads |-> NoCall]
    /\ lock = Unlocked

Idle == stack = <<>> /\ result.st # "Panic"

Top == stack[Len(stack)]

SetTop(frame) == [stack EXCEPT ![Len(stack)] = frame]

\* the embedder calls add_property_definition
AddPropertyDefinition(d) ==
    /\ Idle
    /\ definitions' = add_property_definition(definitions, d).defs
    /\ op' = "add"
    /\ last' = [NoItem EXCEPT !.item = d, !.defs = definitions,
                              !.nrules = IF add_property_definition(definitions, d).ret
                                         THEN 1 ELSE 0]
    /\ UNCHANGED <<rules, errors, stack, result, calls, budget,
                 threads, lock>>

\* the embedder calls parse_string(input, origin): up to the construction
\* of the parser
ParseString(origin) ==
    /\ Idle
    /\ calls < MaxCalls
    /\ calls' = calls + 1
    /\ stack' = <<Frame(origin, FALSE, <<>>)>>
    /\ op' = "call"
    /\ UNCHANGED <<definitions, rules, errors, result, budget, last,
                 threads, lock>>

\* the embedder calls parse_file(name)
ParseFile(name) ==
    /\ Idle
    /\ calls < MaxCalls
    /\ calls' = calls + 1
    /\ IF FileExists(name)
       THEN /\ stack' = <<Frame(name, TRUE, FileItems(name))>>
            /\ op' = "call"
            /\ UNCHANGED result
       ELSE /\ result' = FileErrorResult("parse_file", name, name)
            /\ op' = "file_error"
            /\ UNCHANGED stack
    /\ UNCHANGED <<definitions, rules, errors, budget, last,
                 threads, lock>>

\* the innermost invocation is in its loop and item is the next entry of
\* its input
Reads(item) ==
    /\ stack # <<>>
    /\ ~Top.waiting
    /\ IF Top.fromFile
       THEN Top.items # <<>> /\ item = Head(Top.items)
       ELSE budget > 0
    /\ budget' = IF Top.fromFile THEN budget ELSE budget - 1
    /\ last' = [item |-> item, defs |-> definitions,
                nrules |-> Len(Top.rules), nerrors |-> Len(Top.errors)]
    /\ UNCHANGED <<threads, lock>>

\* the entries the innermost invocation can meet next: the head of a file's
\* input, or any item of the alphabet the embedder's text is made of
Readable(text) ==
    IF stack = <<>> THEN {}
    ELSE IF Top.fromFile
    THEN IF Top.items = <<>> THEN {} ELSE {Head(Top.items)}
    ELSE text

Advance(frame) == [frame EXCEPT !.items = IF frame.fromFile THEN Tail(frame.items) ELSE <<>>]

\* the rule arm extending self.rules at once instead of the local rules
StepRule_extends_at_once(item, entry) ==
    /\ Reads(item)
    /\ entry.res.ok /\ entry.res.kind = "Rule"
    /\ stack' = SetTop(Advance(Top))
    /\ rules' = rules \o from_parsed_rule(entry.res.rule)
    /\ definitions' = entry.defs
    /\ op' = "rule"
    /\ UNCHANGED <<errors, result, calls>>

\* Ok(ParseResult::Rule(rule))
StepRule(item, entry) ==
    /\ Reads(item)
    /\ entry.res.ok /\ entry.res.kind = "Rule"
    /\ stack' = SetTop([Advance(Top) EXCEPT
                           !.rules = @ \o from_parsed_rule(entry.res.rule)])
    /\ definitions' = entry.defs
    /\ op' = "rule"
    /\ UNCHANGED <<rules, errors, result, calls>>

\* Ok(ParseResult::PropertyDefinition(definition))
StepPropertyDefinition(item, entry) ==
    /\ Reads(item)
    /\ entry.res.ok /\ entry.res.kind = "PropertyDefinition"
    /\ stack' = SetTop(Advance(Top))
    /\ definitions' = add_property_definition(entry.defs, entry.res.definition).defs
    /\ op' = "definition"
    /\ UNCHANGED <<rules, errors, result, calls>>

\* Ok(ParseResult::Import(name)): self.parse_file(name), which either
\* fails to open the file or enters parse_string on its contents
StepImport(item, entry) ==
    /\ Reads(item)
    /\ entry.res.ok /\ entry.res.kind = "Import"
    /\ Len(stack) < MaxDepth
    /\ IF FileExists(entry.res.url)
       THEN /\ stack' = Append(SetTop([Advance(Top) EXCEPT !.waiting = TRUE]),
                               Frame(entry.res.url, TRUE, FileItems(entry.res.url)))
            /\ UNCHANGED result
       ELSE /\ stack' = SetTop([Advance(Top) EXCEPT !.waiting = TRUE])
            /\ result' = FileErrorResult("parse_file", entry.res.url, entry.res.url)
    /\ op' = "import"
    /\ UNCHANGED <<definitions, rules, errors, calls>>

\* Ok(ParseResult::Import(name)) when the invocations in progress have used
\* up the thread's stack: parse_file and parse_string call each other with
\* no bound on the depth and no record of the files being parsed, so the
\* call of parse_file overflows the stack and the process is aborted
StepOverflow(item, entry) ==
    /\ Reads(item)
    /\ entry.res.ok /\ entry.res.kind = "Import"
    /\ Len(stack) = MaxDepth
    /\ FileExists(entry.res.url)
    /\ stack' = SetTop([Advance(Top) EXCEPT !.waiting = TRUE])
    /\ result' = OverflowResult
    /\ op' = "overflow"
    /\ UNCHANGED <<definitions, rules, errors, calls>>

\* the error arm restoring the registry the item was read with
StepError_rolls_back(item, entry) ==
    /\ Reads(item)
    /\ ~entry.res.ok /\ entry.res.err.cls = "Custom"
    /\ stack' = SetTop([Advance(Top) EXCEPT
                           !.errors = Append(@, ParseError(entry.res.err.kind,
                                                 entry.res.err.msg, Top.origin))])
    /\ UNCHANGED definitions
    /\ op' = "error"
    /\ UNCHANGED <<rules, errors, result, calls>>

\* Err(error) with a custom error: errors.push(parse_error)
StepError(item, entry) ==
    /\ Reads(item)
    /\ ~entry.res.ok /\ entry.res.err.cls = "Custom"
    /\ stack' = SetTop([Advance(Top) EXCEPT
                           !.errors = Append(@, ParseError(entry.res.err.kind,
                                                 entry.res.err.msg, Top.origin))])
    /\ definitions' = entry.defs
    /\ op' = "error"
    /\ UNCHANGED <<rules, errors, result, calls>>

\* Err(error) with any other error: panic!("Unexpected error type")
StepPanic(item, entry) ==
    /\ Reads(item)
    /\ ~entry.res.ok /\ entry.res.err.cls # "Custom"
    /\ stack' = <<>>
    /\ result' = PanicResult
    /\ definitions' = entry.defs
    /\ op' = "panic"
    /\ UNCHANGED <<rules, errors, calls>>

\* the return replacing self.errors by the invocation's own errors
ReturnReplacesErrors ==
    /\ stack # <<>>
    /\ ~Top.waiting
    /\ Top.fromFile => Top.items = <<>>
    /\ rules' = rules \o Top.rules
    /\ errors' = Top.errors
    /\ result' = IF errors' = <<>> THEN OkResult(Top.origin)
                 ELSE ErrResult("parse_string", Top.origin, "StyleSheetParseError",
                                Top.origin, AggregateMessage(errors'))
    /\ stack' = SubSeq(stack, 1, Len(stack) - 1)
    /\ op' = "return"
    /\ UNCHANGED <<definitions, calls, budget, last,
                   threads, lock>>

\* the return deciding on the invocation's own errors instead of self.errors
ReturnChecksLocalErrors ==
    /\ stack # <<>>
    /\ ~Top.waiting
    /\ Top.fromFile => Top.items = <<>>
    /\ rules' = rules \o Top.rules
    /\ errors' = errors \o Top.errors
    /\ result' = IF Top.errors = <<>> THEN OkResult(Top.origin)
                 ELSE ErrResult("parse_string", Top.origin, "StyleSheetParseError",
                                Top.origin, AggregateMessage(Top.errors))
    /\ stack' = SubSeq(stack, 1, Len(stack) - 1)
    /\ op' = "return"
    /\ UNCHANGED <<definitions, calls, budget, last,
                 threads, lock>>

\* the input is exhausted: extend self.rules and self.errors and return
Return ==
    /\ stack # <<>>
    /\ ~Top.waiting
    /\ Top.fromFile => Top.items = <<>>
    /\ rules' = rules \o Top.rules
    /\ errors' = errors \o Top.errors
    /\ result' = IF errors' = <<>> THEN OkResult(Top.origin)
                 ELSE ErrResult("parse_string", Top.origin, "StyleSheetParseError",
                                Top.origin, AggregateMessage(errors'))
    /\ stack' = SubSeq(stack, 1, Len(stack) - 1)
    /\ op' = "return"
    /\ UNCHANGED <<definitions, calls, budget, last,
                 threads, lock>>

\* self.parse_file(name)? came back with Ok: the loop goes on
ImportOk ==
    /\ stack # <<>>
    /\ Top.waiting
    /\ result.st = "Ok"
    /\ stack' = SetTop([Top EXCEPT !.waiting = FALSE])
    /\ op' = "import_ok"
    /\ UNCHANGED <<definitions, rules, errors, result, calls, budget, last,
                 threads, lock>>

\* the failed import falling through to the end of parse_string, which
\* extends self.rules and self.errors with the invocation's own
ImportFailedKeepsLocals ==
    /\ stack # <<>>
    /\ Top.waiting
    /\ result.st = "Err"
    /\ result' = [result EXCEPT !.fn = "parse_string", !.origin = Top.origin]
    /\ rules' = rules \o Top.rules
    /\ errors' = errors \o Top.errors
    /\ stack' = SubSeq(stack, 1, Len(stack) - 1)
    /\ op' = "import_failed"
    /\ UNCHANGED <<definitions, calls, budget, last,
                 threads, lock>>

\* self.parse_file(name)? came back with Err: parse_string returns it
ImportFailed ==
    /\ stack # <<>>
    /\ Top.waiting
    /\ result.st = "Err"
    /\ result' = [result EXCEPT !.fn = "parse_string", !.origin = Top.origin]
    /\ stack' = SubSeq(stack, 1, Len(stack) - 1)
    /\ op' = "import_failed"
    /\ UNCHANGED <<definitions, rules, errors, calls, budget, last,
                 threads, lock>>

Next ==
    \/ \E d \in DefinitionInputs : AddPropertyDefinition(d)
    \/ \E origin \in Origins : ParseString(origin)
    \/ \E name \in FileNames : ParseFile(name)
    \/ \E item \in Readable(TopItems) :
            StepRule(item, parse_item(item, definitions, TRUE))
    \/ \E item \in Readable(TopItems) :
            StepPropertyDefinition(item, parse_item(item, definitions, TRUE))
    \/ \E item \in Readable(TopItems) :
            StepImport(item, parse_item(item, definitions, TRUE))
    \/ \E item \in Readable(TopItems) :
            StepError(item, parse_item(item, definitions, TRUE))
    \/ \E item \in Readable(TopItems) :
            StepPanic(item, parse_item(item, definitions, TRUE))
    \/ \E item \in Readable(TopItems) :
            StepOverflow(item, parse_item(item, definitions, TRUE))
    \/ Return
    \/ ImportOk
    \/ ImportFailed

Spec == Init /\ [][Next]_vars

(***************************************************************************)
(* parse_file driven on the files alone, the way an embedder loads a       *)
(* stylesheet from disk: the items read are those of the files, which      *)
(* take the rule, import and error arms of the loop.                       *)
(***************************************************************************)
\* the steps of the call in progress
FileStep ==
    \/ \E item \in Readable({}) :
            StepRule(item, parse_item(item, definitions, TRUE))
    \/ \E item \in Readable({}) :
            StepImport(item, parse_item(item, definitions, TRUE))
    \/ \E item \in Readable({}) :
            StepError(item, parse_item(item, definitions, TRUE))
    \/ \E item \in Readable({}) :
            StepOverflow(item, parse_item(item, definitions, TRUE))
    \/ Return
    \/ ImportOk
    \/ ImportFailed

FileNext ==
    \/ \E name \in FileNames : ParseFile(name)
    \/ FileStep

\* parse_string runs on the embedder's thread from its call to its return:
\* a step of the call in progress that stays possible is taken
FileSpec == Init /\ [][FileNext]_vars /\ WF_vars(FileStep)

(***************************************************************************)
(* The same driver reading texts made of rules with custom properties,     *)
(* `!important` trailers and @property blocks                              *)
(***************************************************************************)
DeclCustomBlue == Decl("--c", <<TIdent("blue")>>)

DeclCustomD == Decl("--d", <<TIdent("blue")>>)

DeclSyntax == Decl("syntax", <<TQuoted("color")>>)

DeclInherits == Decl("inherits", <<TIdent("true")>>)

DeclInitialValue == Decl("initial-value", <<TIdent("blue")>>)

DeclVarFallback ==
    Decl("test", <<TFunction("var", <<TIdent("--c"), TComma, TIdent("blue")>>)>>)

RuleItems ==
    {QRule(<<SelA>>, <<DeclCustom>>),
     QRule(<<SelA>>, <<DeclVar>>),
     QRule(<<SelA>>, <<DeclVar, DeclCustom>>),
     QRule(<<SelA>>, <<DeclVarFallback>>),
     QRule(<<SelA>>, <<DeclVarFallback, DeclCustom>>),
     QRule(<<SelA>>, <<DeclCustom, DeclVarFallback>>),
     QRule(<<SelA, SelB>>, <<DeclCustom, DeclVar>>),
     QRule(<<SelA>>, <<DeclCustom, DeclBogus>>),
     QRule(<<SelA>>, <<AtProperty("--d", <<DeclSyntax>>), DeclBogus>>),
     QRule(<<SelA>>, <<DeclCustom, QRule(<<SelN>>, <<DeclCustomD, DeclBogus>>)>>),
     QRule(<<SelB>>, <<DeclRed, DeclCustom, DeclCustomBlue>>),
     QRule(<<SelPseudoElement>>, <<DeclCustom>>),
     QRule(<<SelA>>, <<DeclRed>>),
     QRule(<<SelA>>, <<DeclImportant>>),
     QRule(<<SelA>>, <<DeclCustom, Decl("--c", <<TIdent("blue"), TBang, TIdent("important")>>)>>),
     AtProperty("--d", <<>>),
     AtProperty("--d", <<DeclSyntax>>),
     AtProperty("--d", <<DeclSyntax, DeclInherits>>),
     AtProperty("--d", <<DeclInherits, DeclSyntax>>),
     AtProperty("--d", <<DeclSyntax, DeclInitialValue>>),
     AtProperty("--d", <<DeclInitialValue, DeclSyntax>>),
     AtProperty("--d", <<DeclInherits>>),
     AtProperty("--d", <<Decl("syntax", <<TQuoted("color"), TIdent("x")>>)>>),
     AtProperty("--d", <<Decl("syntax", <<TQuoted("bogus")>>)>>),
     AtProperty("", <<DeclSyntax>>)}

RuleNext ==
    \/ \E d \in DefinitionInputs : AddPropertyDefinition(d)
    \/ \E origin \in Origins : ParseString(origin)
    \/ \E item \in Readable(RuleItems) :
            StepRule(item, parse_item(item, definitions, TRUE))
    \/ \E item \in Readable(RuleItems) :
            StepPropertyDefinition(item, parse_item(item, definitions, TRUE))
    \/ \E item \in Readable(RuleItems) :
            StepError(item, parse_item(item, definitions, TRUE))
    \/ \E item \in Readable(RuleItems) :
            StepPanic(item, parse_item(item, definitions, TRUE))
    \/ Return

RuleSpec == Init /\ [][RuleNext]_vars

(***************************************************************************)
(* The value parser and the function registry driven directly, the way     *)
(* tests/propertyvalue.rs and tests/propertyfunction.rs drive them: the    *)
(* registry is filled through add_property_definition, and each call       *)
(* leaves its input and its outcome in `last`.                             *)
(***************************************************************************)
MaxTokens == 3

MaxChecks == 1

\* the tokens a value is made of
ValueTokens == {TDimension(1, "px"), TIdent("auto"), TComma}

\* a custom property an embedder registers with an initial value
CustomDefinitionInputs ==
    {PropertyDefinitionRec("--c", SyntaxUniversal, FALSE,
                           <<VColor(Rgba(255, 0, 0, 255))>>)}

RECURSIVE SeqsUpTo(_, _)
SeqsUpTo(S, n) ==
    IF n = 0 THEN {<<>>}
    ELSE SeqsUpTo(S, n - 1)
         \cup {Append(q, x) : q \in {r \in SeqsUpTo(S, n - 1) : Len(r) = n - 1}, x \in S}

ValueInputs == SeqsUpTo(ValueTokens, MaxTokens)

\* `24`, a number token with an integer representation, and `0.5` (in
\* tenths), one without
NumberInputs ==
    {<<TNumber(24, TRUE)>>, <<TNumber(5, FALSE)>>,
     <<TNumber(24, TRUE), TNumber(5, FALSE)>>}

\* check_value / check_error of tests/propertyvalue.rs: parse_syntax(s)
\* unwrapped, then parse_values on the input
check_value(s, tokens, out) ==
    /\ Idle
    /\ calls < MaxChecks
    /\ parse_syntax(s).ok
    /\ calls' = calls + 1
    /\ op' = "check_value"
    /\ last' = [s |-> s, tokens |-> tokens, defs |-> definitions, out |-> out]
    /\ UNCHANGED <<definitions, rules, errors, stack, result, budget,
                 threads, lock>>

\* the colour arguments of the tests of tests/propertyfunction.rs, and 0.5
\* written in tenths
ArgBlack == TIdent("black")

ArgWhite == TIdent("white")

ArgHalf == TNumber(5, FALSE)

\* the function components the function tests and the stylesheet test
\* custom_properties are made of
FunctionInputs ==
    {TFunction("var", <<TIdent("--c")>>),
     TFunction("var", <<TIdent("--c"), TComma, TIdent("blue")>>),
     TFunction("var", <<TIdent("--d")>>),
     TFunction("var", <<TIdent("--d"), TComma, TIdent("blue")>>),
     TFunction("var", <<TIdent("--d"), TComma, TDimension(1, "px"), TIdent("auto")>>),
     TFunction("mix", <<ArgBlack, TComma, ArgWhite, TComma, ArgHalf>>),
     TFunction("mix", <<ArgWhite, TComma, THash("ff0000"), TComma, TNumber(1, TRUE)>>),
     TFunction("mix", <<ArgBlack, TComma, ArgWhite>>),
     TFunction("custom-color", <<TQuoted("test"), TComma, TQuoted("some")>>),
     TFunction("mix", <<TFunction("bogus", <<>>), TComma, ArgWhite, TComma, ArgHalf>>),
     TFunction("var", <<TIdent("--d"), TComma, TFunction("bogus", <<>>)>>),
     TFunction("var", <<TIdent("--c"), TComma, TFunction("bogus", <<>>)>>),
     TFunction("bogus", <<ArgBlack>>),
     TFunction("modify-color", <<ArgBlack, TIdent("add"), ArgWhite>>),
     TFunction("modify-color", <<ArgBlack, TIdent("set-alpha"), ArgHalf>>)}

\* check_value of tests/propertyfunction.rs: the function is looked up by
\* its name and run in its nested block, as parse_function does; component
\* is what parse_value_component makes of the outcome
check_function(function, out, component) ==
    /\ Idle
    /\ calls < MaxChecks
    /\ calls' = calls + 1
    /\ op' = "check_function"
    /\ last' = [tokens |-> <<function>>, defs |-> definitions, out |-> out,
                component |-> component]
    /\ UNCHANGED <<definitions, rules, errors, stack, result, budget,
                   threads, lock>>

ValueNext ==
    \/ \E d \in CustomDefinitionInputs : AddPropertyDefinition(d)
    \/ \E s \in DOMAIN SyntaxStrings, tokens \in ValueInputs \cup NumberInputs :
            check_value(s, tokens, parse_values(parse_syntax(s).syntax, tokens, definitions))
    \/ \E function \in FunctionInputs :
            check_function(function, parse_function(<<function>>, definitions),
                           parse_value_component(<<function>>, definitions))

ValueSpec == Init /\ [][ValueNext]_vars

(***************************************************************************)
(* property.rs: the registry functions called from several threads.  Each  *)
(* thread makes one call; the guard returned by write() or read() is       *)
(* dropped when the function returns.  Nothing panics while a guard is     *)
(* held, so the lock is never poisoned and write() and read() return Ok.   *)
(***************************************************************************)
LookupNames == {"test", "padding"}

\* write() returning while other threads hold the lock
write_acquired_shared == TRUE

\* write() returns: no other thread holds the lock
write_acquired == lock.writer = 0 /\ lock.readers = {}

\* read() returns: no writer holds the lock
read_acquired == lock.writer = 0

SetThread(t, state) == [threads EXCEPT ![t] = state]

registry_unchanged == UNCHANGED <<rules, errors, stack, result, calls, budget, op, last>>

\* thread t calls add_property_definition(definition)
CallAdd(t, definition) ==
    /\ threads[t].pc = "idle"
    /\ threads' = SetThread(t, [pc |-> "add_write", fn |-> "add", arg |-> definition])
    /\ UNCHANGED <<definitions, lock>>
    /\ registry_unchanged

\* property_definitions().write()
AddWrite(t) ==
    /\ threads[t].pc = "add_write"
    /\ write_acquired
    /\ lock' = [lock EXCEPT !.writer = t]
    /\ threads' = SetThread(t, [threads[t] EXCEPT !.pc = "add_find"])
    /\ UNCHANGED definitions
    /\ registry_unchanged

\* definitions.iter().find(..).is_some(): return false, dropping the guard
AddFind(t) ==
    /\ threads[t].pc = "add_find"
    /\ IF find_definition(definitions, threads[t].arg.name).some
       THEN /\ threads' = SetThread(t, [threads[t] EXCEPT !.pc = "done"]
                                         @@ [ret |-> FALSE])
            /\ lock' = [lock EXCEPT !.writer = 0]
       ELSE /\ threads' = SetThread(t, [threads[t] EXCEPT !.pc = "add_push"])
            /\ UNCHANGED lock
    /\ UNCHANGED definitions
    /\ registry_unchanged

\* definitions.push(definition.clone()); the guard is dropped; return true
AddPush(t) ==
    /\ threads[t].pc = "add_push"
    /\ definitions' = Append(definitions, threads[t].arg)
    /\ threads' = SetThread(t, [threads[t] EXCEPT !.pc = "done"] @@ [ret |-> TRUE])
    /\ lock' = [lock EXCEPT !.writer = 0]
    /\ registry_unchanged

\* thread t calls property_definition(name)
CallGet(t, name) ==
    /\ threads[t].pc = "idle"
    /\ threads' = SetThread(t, [pc |-> "get_read", fn |-> "get", arg |-> name])
    /\ UNCHANGED <<definitions, lock>>
    /\ registry_unchanged

\* property_definitions().read()
GetRead(t) ==
    /\ threads[t].pc = "get_read"
    /\ read_acquired
    /\ lock' = [lock EXCEPT !.readers = @ \cup {t}]
    /\ threads' = SetThread(t, [threads[t] EXCEPT !.pc = "get_find"])
    /\ UNCHANGED definitions
    /\ registry_unchanged

\* definitions.iter().find(..): return the clone or None, dropping the guard
GetFind(t) ==
    /\ threads[t].pc = "get_find"
    /\ threads' = SetThread(t, [threads[t] EXCEPT !.pc = "done"]
                                 @@ [ret |-> property_definition(definitions,
                                                                 threads[t].arg)])
    /\ lock' = [lock EXCEPT !.readers = @ \ {t}]
    /\ UNCHANGED definitions
    /\ registry_unchanged

RegistryNext ==
    \/ \E t \in Threads, d \in DefinitionInputs : CallAdd(t, d)
    \/ \E t \in Threads : AddWrite(t)
    \/ \E t \in Threads : AddFind(t)
    \/ \E t \in Threads : AddPush(t)
    \/ \E t \in Threads, name \in LookupNames : CallGet(t, name)
    \/ \E t \in Threads : GetRead(t)
    \/ \E t \in Threads : GetFind(t)

RegistrySpec == Init /\ [][RegistryNext]_vars

(***************************************************************************)
(* Selector::combine and SelectorParser::parse called on their own, as     *)
(* tests/selector.rs and tests/selectorparser.rs call them                 *)
(***************************************************************************)
MaxParts == 3

MaxParent == 2

MaxComponents == 4

\* the parts a nested and an enclosing selector are made of
NestedParts ==
    {new_with_empty("RelativeParent"), new_with_value("Type", "type"),
     new_with_empty("DescendantCombinator")}

ParentParts == {new_with_value("Class", "class"), new_with_empty("RelativeParent")}

\* combine_basic / combine_nested of tests/selector.rs
check_combine(first, second, out) ==
    /\ Idle
    /\ calls < MaxChecks
    /\ calls' = calls + 1
    /\ op' = "combine"
    /\ last' = [first |-> first, second |-> second, out |-> out]
    /\ UNCHANGED <<definitions, rules, errors, stack, result, budget,
                   threads, lock>>

\* the components a source selector is made of
SourceComponents ==
    {SComp("LocalName", "type"), SComp("Class", "class"),
     SComp("NonTSPseudoClass", "hovered"), SComp("ParentSelector", ""),
     SCombinator("Child"), SCombinator("Descendant")}

\* a selector the selectors library parses: no combinator first, last or
\* next to another, and a type selector only at the start of a compound
WellFormed(entry) ==
    /\ entry # <<>>
    /\ entry[1].sk # "Combinator"
    /\ entry[Len(entry)].sk # "Combinator"
    /\ \A i \in 2..Len(entry) :
          /\ entry[i].sk = "Combinator" => entry[i - 1].sk # "Combinator"
          /\ entry[i].sk = "LocalName" => entry[i - 1].sk = "Combinator"

SourceSelectors == {entry \in SeqsUpTo(SourceComponents, MaxComponents) : WellFormed(entry)}

\* preludes of one selector, and of two short ones
Preludes ==
    {<<entry>> : entry \in SourceSelectors}
    \cup {<<first, second>> : first, second \in {e \in SourceSelectors : Len(e) <= 2}}

\* check_selector of tests/selectorparser.rs
check_selector(prelude, relative, out) ==
    /\ Idle
    /\ calls < MaxChecks
    /\ calls' = calls + 1
    /\ op' = "check_selector"
    /\ last' = [prelude |-> prelude, relative |-> relative, out |-> out]
    /\ UNCHANGED <<definitions, rules, errors, stack, result, budget,
                   threads, lock>>

SelectorNext ==
    \/ \E first \in SeqsUpTo(NestedParts, MaxParts),
          second \in SeqsUpTo(ParentParts, MaxParent) :
            check_combine(first, second, combine(first, second))
    \/ \E prelude \in Preludes, relative \in {"No", "Nested"} :
            check_selector(prelude, relative, SelectorParser_parse(prelude, relative))

SelectorSpec == Init /\ [][SelectorNext]_vars

(***************************************************************************)
(* Properties                                                              *)
(***************************************************************************)
\* the steps of the item loop that leave the invocation on the stack
LoopOps == {"rule", "definition", "import", "error"}

\* the rules the step taken last appended to the invocation's local rules
Emitted == Rest(Top.rules, last.nrules)

\* the errors the step taken last appended to the invocation's local errors
Recorded == Rest(Top.errors, last.nerrors)

UniqueNames(defs) ==
    \A i, j \in 1..Len(defs) : defs[i].name = defs[j].name => i = j

NamePresent(defs, name) == \E i \in 1..Len(defs) : defs[i].name = name

\* C1: the registry holds at most one definition per name; a call of
\* add_property_definition for a name already present returns false and
\* leaves the registry unchanged, one for a new name returns true and adds
\* it; so once a name has a definition, property_definition returns that
\* first definition for ever, and None for a name not in the registry.
C1_FirstDefinitionWins ==
    [][/\ UniqueNames(definitions')
       /\ \A name \in Names :
             /\ property_definition(definitions, name).some
                   => property_definition(definitions', name)
                        = property_definition(definitions, name)
             /\ property_definition(definitions', name).some
                   <=> NamePresent(definitions', name)
       /\ op' = "add"
             => IF NamePresent(definitions, last'.item.name)
                THEN last'.nrules = 0 /\ definitions' = definitions
                ELSE last'.nrules = 1
                     /\ definitions' = Append(definitions, last'.item)]_vars

\* a second definition was offered under a registered name and rejected
C1_Witness ==
    /\ op = "add"
    /\ last.nrules = 0
    /\ property_definition(definitions, last.item.name).some
    /\ property_definition(definitions, last.item.name).def # last.item

\* message is built from errs, one entry per error, in their order: the
\* message of a single error, or a heading and one line per error
MessageCombines(message, errs) ==
    /\ Len(message.lines) = Len(errs)
    /\ message.multiple = (Len(errs) > 1)
    /\ \A i \in 1..Len(errs) :
          IF Len(errs) = 1
          THEN message.lines[i].msg = errs[i].message
          ELSE /\ message.lines[i].file = errs[i].file
               /\ message.lines[i].kind = errs[i].kind
               /\ message.lines[i].msg \in {errs[i].message, ""}

\* what the claim says of a parse_string that has just returned
ReturnContract ==
    /\ result.fn = "parse_string"
    /\ (result.st = "Ok") <=> (errors = <<>>)
    /\ result.st # "Ok"
          => /\ result.st = "Err"
             /\ result.kind = "StyleSheetParseError"
             /\ result.file = result.origin
             /\ MessageCombines(result.message, errors)

\* C2 as stated: whenever parse_string returns, it returns Ok exactly when
\* stylesheet.errors is empty, and otherwise one StyleSheetParseError located
\* at the origin argument whose message combines stylesheet.errors in order.
C2_Original == op \in {"return", "import_failed"} => ReturnContract

\* C2 amended: the same, for a parse_string that returns at the end of its
\* item loop; a return forced by a failed @import is left out.
C2_ReturnAtEndOfLoop == op = "return" => ReturnContract

\* a second call returned the aggregate of errors of two calls
C2_Witness ==
    /\ op = "return"
    /\ calls = 2
    /\ result.st = "Err"
    /\ result.message.multiple
    /\ Len(errors) >= 2
    /\ errors[1].file # errors[Len(errors)].file

\* the item read last is a qualified rule with a block and a valid prelude
ReadRule ==
    /\ op \in LoopOps
    /\ last.item.bk = "Rule"
    /\ last.item.hasBlock
    /\ SelectorParser_parse(last.item.prelude, "No").ok

DeclarationErrorKinds ==
    {"UnknownProperty", "InvalidPropertyValue", "PropertyValueDoesNotMatchSyntax"}

\* reads a block in source order, nested blocks included, up to the first
\* entry that fails: failed tells whether that entry is a declaration that
\* failed with one of DeclarationErrorKinds, defs is the registry there
RECURSIVE FirstFailure(_, _)
FirstFailure(body, defs) ==
    IF body = <<>> THEN [stopped |-> FALSE, failed |-> FALSE, kind |-> "", defs |-> defs]
    ELSE LET e == Head(body)
         IN IF e.bk = "Declaration"
            THEN LET r == parse_value(e.name, e.tokens, defs)
                 IN IF ~r.ok
                    THEN [stopped |-> TRUE,
                          failed |-> r.err.cls = "Custom"
                                     /\ r.err.kind \in DeclarationErrorKinds,
                          kind |-> r.err.kind, defs |-> defs]
                    ELSE IF r.kind = "PropertyDefinition"
                    THEN FirstFailure(Tail(body),
                             IF NamePresent(defs, r.definition.name) THEN defs
                             ELSE Append(defs, r.definition))
                    ELSE FirstFailure(Tail(body), defs)
            ELSE IF e.bk = "Rule" /\ e.hasBlock
                    /\ SelectorParser_parse(e.prelude, "Nested").ok
            THEN LET inner == FirstFailure(e.body, defs)
                 IN IF inner.stopped THEN inner
                    ELSE FirstFailure(Tail(body), inner.defs)
            ELSE [stopped |-> TRUE, failed |-> FALSE, kind |-> "", defs |-> defs]

FailedDeclaration == FirstFailure(last.item.body, last.defs)

\* some prelude selector of the rule read last has parts
SomeSelectorHasParts ==
    \E i \in 1..Len(last.item.prelude) :
        SelectorParser_parse(last.item.prelude, "No").selectors[i] # <<>>

OnlyDeclarationMismatches ==
    /\ ReadRule
    /\ Len(last.item.body) = 1
    /\ last.item.body[1].bk = "Declaration"
    /\ property_definition(last.defs, last.item.body[1].name).some
    /\ LET syntax == property_definition(last.defs, last.item.body[1].name).def.syntax
           parsed == parse_values(SyntaxUniversal, last.item.body[1].tokens, last.defs)
       IN /\ parsed.ok
          /\ parsed.rest = <<>>
          /\ \/ /\ syntax = ColorSyntax
                /\ ~(Len(parsed.values) = 1 /\ parsed.values[1].vt = "Color")
             \/ /\ syntax = LengthsSyntax
                /\ \E i \in 1..Len(parsed.values) :
                      ~(parsed.values[i].vt = "Dimension"
                        /\ parsed.values[i].unit \in {"Px", "Em", "Rem", "Pt"})

\* C4: a top-level rule whose only declaration has a value that does not
\* match the property's registered syntax emits no rule and adds exactly one
\* error, of kind PropertyValueDoesNotMatchSyntax.
C4_MismatchOnlyDeclaration ==
    OnlyDeclarationMismatches
        => /\ op = "error"
           /\ Emitted = <<>>
           /\ Len(Recorded) = 1
           /\ Recorded[1].kind = "PropertyValueDoesNotMatchSyntax"

\* `a { padding: red; }` with padding registered as <length>+ was read
C4_Witness ==
    /\ OnlyDeclarationMismatches
    /\ last.item.body[1] = DeclPaddingRed
    /\ op = "error"

\* C5: parse_string never panics: every Err item of the top-level parser,
\* the tokenizer's non-custom errors included, is appended to the errors.
C5_NeverPanics ==
    /\ op # "panic"
    /\ result.st # "Panic"
    /\ (op \in LoopOps /\ ~parse_item(last.item, last.defs, TRUE).res.ok)
          => Len(Recorded) = 1

\* an @import of the innermost invocation has failed and the invocation
\* has not yet acted on it
ImportHasFailed == stack # <<>> /\ Top.waiting /\ result.st = "Err"

\* C6: when a top-level @import fails (the file is missing or its parse
\* returns Err), the importing parse_string does nothing but return that
\* Err: it reads no further item and adds none of its own rules or errors
\* to stylesheet.rules and stylesheet.errors.
C6_ImportFailureIsFatal ==
    [][ImportHasFailed
         => /\ op' = "import_failed"
            /\ stack' = SubSeq(stack, 1, Len(stack) - 1)
            /\ result'.st = "Err"
            /\ result'.kind = result.kind
            /\ result'.file = result.file
            /\ result'.message = result.message
            /\ rules' = rules
            /\ errors' = errors
            /\ budget' = budget
            /\ definitions' = definitions]_vars

\* chain.css, which had a rule and an error of its own and an item left,
\* returned the Err of its import of bad.css: the stylesheet holds only
\* the rule and the error of bad.css
C6_Witness ==
    /\ op = "import_failed"
    /\ result.origin = "chain.css"
    /\ result.file = "bad.css"
    /\ result.kind = "StyleSheetParseError"
    /\ Len(rules) = 1
    /\ Len(errors) = 1
    /\ errors[1].file = "bad.css"

\* concatenation of a sequence of sequences
RECURSIVE Concat(_)
Concat(ss) == IF ss = <<>> THEN <<>> ELSE Head(ss) \o Concat(Tail(ss))

\* the emission order of the claim for a parsed rule: selector by selector,
\* the rule's own StyleRule and then every nested rule's expansion combined
\* with the selector, in source order; with skips, a selector without parts
\* emits nothing when the rule has no properties
RECURSIVE Expansion(_, _)
Expansion(parsed, skips) ==
    Concat([i \in 1..Len(parsed.selectors) |->
        IF skips /\ parsed.selectors[i] = <<>> /\ parsed.properties = <<>>
        THEN <<>>
        ELSE <<[selector |-> parsed.selectors[i], properties |-> parsed.properties]>>
             \o Concat([k \in 1..Len(parsed.nested_rules) |->
                    LET sub == Expansion(parsed.nested_rules[k], skips)
                    IN [j \in 1..Len(sub) |->
                           [selector |-> combine(sub[j].selector, parsed.selectors[i]),
                            properties |-> sub[j].properties]]])])

\* the ParsedRule of the item read last
ReadParsedRule == parse_item(last.item, last.defs, TRUE).res.rule

\* C7 as stated: every prelude selector emits its own rule and then the
\* nested expansions, in order.
C7_Original == op = "rule" => Emitted = Expansion(ReadParsedRule, FALSE)

\* C7 amended: the same order, but a selector without parts emits nothing,
\* neither its own rule nor a nested expansion, when the rule has no
\* properties of its own.
C7_EmissionOrder == op = "rule" => Emitted = Expansion(ReadParsedRule, TRUE)

\* a rule with two nested rules, one of them with two selectors and a
\* nested rule of its own, was flattened
C7_Witness ==
    /\ op = "rule"
    /\ Len(ReadParsedRule.nested_rules) = 2
    /\ Len(Emitted) = 6

HasRelativeParent(selector) ==
    \E i \in 1..Len(selector) : selector[i].kind = "RelativeParent"

\* the selectors of the rule read last, as parsed at top level
ReadSelectors == SelectorParser_parse(last.item.prelude, "No").selectors

\* entry k of the block read last is a nested rule written without `&`
ImplicitNested(k) ==
    /\ last.item.body[k].bk = "Rule"
    /\ last.item.body[k].hasBlock
    /\ \A j \in 1..Len(last.item.body[k].prelude) :
          ~HasParentSelector(last.item.body[k].prelude[j])

\* the item read last with `& ` written before the selectors of its
\* nested rules that have no `&`
ExplicitItem ==
    [last.item EXCEPT !.body =
        [k \in 1..Len(last.item.body) |->
            IF ImplicitNested(k)
            THEN [last.item.body[k] EXCEPT !.prelude =
                    [j \in 1..Len(last.item.body[k].prelude) |->
                        <<SComp("ParentSelector", ""), SCombinator("Descendant")>>
                        \o last.item.body[k].prelude[j]]]
            ELSE last.item.body[k]]]

\* C8: a nested rule written with an implicit parent and the same rule
\* written with a leading `& ` flatten to the same StyleRules, and the
\* StyleRule of a nested selector under an enclosing selector that emits
\* its rule is the enclosing selector's parts, DescendantCombinator, the
\* nested selector's parts, with the nested rule's properties.
C8_ImplicitParentIsDescendant ==
    op = "rule"
      => /\ parse_item(ExplicitItem, last.defs, TRUE).res.ok
         /\ from_parsed_rule(parse_item(ExplicitItem, last.defs, TRUE).res.rule)
               = Emitted
         /\ \A i \in 1..Len(ReadSelectors), k \in 1..Len(last.item.body) :
               (/\ ImplicitNested(k)
                /\ ~(ReadSelectors[i] = <<>> /\ ReadParsedRule.properties = <<>>))
                 => \A j \in 1..Len(last.item.body[k].prelude) :
                       LET own == SelectorParser_parse(
                                      <<last.item.body[k].prelude[j]>>, "No").selectors[1]
                       IN own # <<>>
                            => \E e \in 1..Len(Emitted) :
                                  Emitted[e].selector
                                    = ReadSelectors[i]
                                      \o <<new_with_empty("DescendantCombinator")>>
                                      \o own

\* C9: when the prelude of a top-level rule contains no `&`, none of the
\* rules it is flattened to (the rules stylesheet.rules receives) has a
\* RelativeParent part, at any nesting depth: every combine of a nested
\* selector with its enclosing selector has replaced them.
C9_NoRelativeParentLeft ==
    (/\ op = "rule"
     /\ \A i \in 1..Len(last.item.prelude) : ~HasParentSelector(last.item.prelude[i]))
      => \A e \in 1..Len(Emitted) : ~HasRelativeParent(Emitted[e].selector)

\* C10: no StyleRule of stylesheet.rules has an empty selector and
\* properties, and a rule whose selector and properties are both empty
\* emits nothing.
C10_NoEmptySelectorWithProperties ==
    /\ \A e \in 1..Len(rules) :
          ~(rules[e].selector = <<>> /\ rules[e].properties # <<>>)
    /\ (/\ op = "rule"
        /\ ReadParsedRule.properties = <<>>
        /\ \A i \in 1..Len(ReadSelectors) : ReadSelectors[i] = <<>>)
          => Emitted = <<>>

(***************************************************************************)
(* Properties of a StyleSheet across calls                                 *)
(***************************************************************************)
IsPrefix(p, q) == Len(p) <= Len(q) /\ SubSeq(q, 1, Len(p)) = p

\* the items hold nothing that can fail: rules with an empty block, and
\* imports of existing files made of such items
RECURSIVE FaultFree(_)
FaultFree(items) ==
    \A k \in 1..Len(items) :
        \/ /\ items[k].bk = "Rule"
           /\ items[k].hasBlock
           /\ items[k].body = <<>>
           /\ ~SelectorListInvalid(items[k].prelude)
        \/ /\ items[k].bk = "AtImport"
           /\ FileExists(items[k].url)
           /\ FaultFree(FileItems(items[k].url))

\* this step ends an invocation of parse_string by a return
Returns == stack # <<>> /\ Len(stack') = Len(stack) - 1 /\ result'.st # "Panic"

\* C25 as stated: rules and errors only grow, and once an error is recorded
\* every later parse_string returns Err, even for fault-free input, whose
\* rules are nevertheless appended, with a message that includes the earlier
\* errors
C25_Original ==
    [][/\ IsPrefix(rules, rules')
       /\ IsPrefix(errors, errors')
       /\ Returns /\ errors # <<>>
            => /\ result'.st = "Err"
               /\ Top.fromFile /\ FaultFree(FileItems(Top.origin))
                    => /\ rules' = rules \o Top.rules
                       /\ MessageCombines(result'.message, errors')]_vars

\* C25 amended: rules and errors only grow, and once an error is recorded
\* every invocation that returns, returns Err, and no import comes back Ok.
\* One that returns at the end of its item loop appends its rules and errors
\* and returns the aggregate of all errors, the earlier ones first; one that
\* returns because its import came back Err returns the import's error and
\* appends neither its own rules nor its own errors
C25_ErrorsAreSticky ==
    [][/\ IsPrefix(rules, rules')
       /\ IsPrefix(errors, errors')
       /\ Returns /\ errors # <<>> => result'.st = "Err"
       /\ op' = "import_ok" /\ stack' # stack => errors = <<>>
       /\ Returns /\ errors # <<>> /\ ~Top.waiting
            => /\ rules' = rules \o Top.rules
               /\ errors' = errors \o Top.errors
               /\ result'.kind = "StyleSheetParseError"
               /\ result'.file = Top.origin
               /\ result'.message = AggregateMessage(errors')
       /\ Returns /\ Top.waiting
            => /\ rules' = rules
               /\ errors' = errors
               /\ result'.st = "Err"
               /\ result'.kind = result.kind
               /\ result'.file = result.file
               /\ result'.message = result.message]_vars

\* a second call, of a fault-free file that imports a fault-free file, came
\* back with the aggregate located at the imported file, and the rule it had
\* read before the import is not among the stylesheet's rules
C25_Witness ==
    /\ op = "import_failed"
    /\ stack = <<>>
    /\ calls = 2
    /\ result.kind = "StyleSheetParseError"
    /\ result.file = "ok.css"
    /\ errors # <<>>
    /\ \A i \in 1..Len(rules) : rules[i].selector # SelectorParser_parse(<<SelA>>, "No").selectors[1]

(***************************************************************************)
(* Properties of imports                                                   *)
(***************************************************************************)
IsSuffix(p, q) ==
    Len(p) <= Len(q) /\ SubSeq(q, Len(q) - Len(p) + 1, Len(q)) = p

\* the StyleRules of the rules written in the items themselves, in order
OwnRules(items) ==
    Concat([k \in 1..Len(items) |->
        IF items[k].bk = "Rule" /\ parse_item(items[k], definitions, TRUE).res.ok
        THEN from_parsed_rule(parse_item(items[k], definitions, TRUE).res.rule)
        ELSE <<>>])

\* the order of the claim for a file whose imports succeed: the rules of
\* the files it imports, import by import, each in this order itself, and
\* then the file's own rules, wherever the @import rules stand in the file
RECURSIVE FileRules(_, _)
FileRules(name, depth) ==
    IF depth = 0 \/ ~FileExists(name) THEN <<>>
    ELSE LET items == FileItems(name)
         IN Concat([k \in 1..Len(items) |->
                IF items[k].bk = "AtImport"
                THEN FileRules(items[k].url, depth - 1) ELSE <<>>])
            \o OwnRules(items)

\* C28: when the parse_string call of a file returns (every @import of it
\* came back Ok), the rules it leaves at the end of stylesheet.rules are
\* the rules of the imported files followed by the file's own rules:
\* every imported rule stands before every rule of the importing text,
\* also before the rules written above the @import.
C28_ImportedRulesFirst ==
    (op = "return" /\ FileExists(result.origin))
        => IsSuffix(FileRules(result.origin, MaxDepth), rules)

\* wrap.css, which imports ok.css between two rules of its own, returned
\* Ok: the rule of ok.css stands before both
C28_Witness ==
    /\ op = "return"
    /\ result.origin = "wrap.css"
    /\ result.st = "Ok"
    /\ Len(rules) = 3
    /\ rules[1] = FileRules("ok.css", MaxDepth)[1]
    /\ <<rules[2], rules[3]>> = OwnRules(FileItems("wrap.css"))

\* a call of parse_file is in progress
InParseFile == stack # <<>> /\ stack[1].fromFile

\* C29: every call of parse_file eventually returns Ok or Err, also when
\* the @import chain of the file leads back to a file that is being parsed.
C29_ParseFileReturns ==
    InParseFile ~> (stack = <<>> /\ result.st \in {"Ok", "Err"})

(***************************************************************************)
(* Properties of custom property declarations                              *)
(***************************************************************************)
\* the rule read last has a block of declarations only, all of which parsed
ReadsDeclarations ==
    /\ ReadRule
    /\ \A k \in 1..Len(last.item.body) : last.item.body[k].bk = "Declaration"
    /\ ~FirstFailure(last.item.body, last.defs).stopped

\* the registry as the declarations before entry k of the block left it
DefsAt(k) == FirstFailure(SubSeq(last.item.body, 1, k - 1), last.defs).defs

\* entry k of the block read last is a `--` declaration whose name is not
\* registered when it is read
CustomAt(k) ==
    /\ starts_with_dashes(last.item.body[k].name)
    /\ ~NamePresent(DefsAt(k), last.item.body[k].name)

\* the properties a block of declarations gives its rule: one for each
\* declaration whose name is registered when it is read
RECURSIVE RegisteredProperties(_, _)
RegisteredProperties(body, defs) ==
    IF body = <<>> THEN <<>>
    ELSE IF NamePresent(defs, Head(body).name)
    THEN <<Property(Head(body).name, property_definition(defs, Head(body).name).def,
                    parse_values(SyntaxUniversal, Head(body).tokens, defs).values)>>
         \o RegisteredProperties(Tail(body), defs)
    ELSE RegisteredProperties(Tail(body),
            Append(defs, PropertyDefinitionRec(Head(body).name, SyntaxUniversal, FALSE,
                      parse_values(SyntaxUniversal, Head(body).tokens, defs).values)))

\* the definition an unregistered `--` declaration at entry k registers
CustomDefinition(k) ==
    PropertyDefinitionRec(last.item.body[k].name, SyntaxUniversal, FALSE,
        parse_values(SyntaxUniversal, last.item.body[k].tokens, DefsAt(k)).values)

\* C13 as stated: an unregistered `--` declaration is not added to the rule's
\* properties, registers {name, Universal, false, parsed values}, and the
\* rule is still emitted with each of its selectors
C13_Original ==
    ReadsDeclarations
        => \A k \in 1..Len(last.item.body) :
              CustomAt(k)
                => /\ op = "rule"
                   /\ property_definition(definitions, last.item.body[k].name)
                        = [some |-> TRUE, def |-> CustomDefinition(k)]
                   /\ Emitted = [i \in 1..Len(ReadSelectors) |->
                                    StyleRule(ReadSelectors[i],
                                              RegisteredProperties(last.item.body,
                                                                   last.defs))]

\* the selectors from_parsed_rule emits a rule for
SelectorsKept ==
    SelectSeq(ReadSelectors,
              LAMBDA selector :
                selector # <<>> \/ RegisteredProperties(last.item.body, last.defs) # <<>>)

\* C13 amended: the same, but the rule is emitted only for the selectors that
\* have parts, unless the rule has properties
C13_CustomDeclarationRegisters ==
    ReadsDeclarations
        => \A k \in 1..Len(last.item.body) :
              CustomAt(k)
                => /\ op = "rule"
                   /\ property_definition(definitions, last.item.body[k].name)
                        = [some |-> TRUE, def |-> CustomDefinition(k)]
                   /\ Emitted = [i \in 1..Len(SelectorsKept) |->
                                    StyleRule(SelectorsKept[i],
                                              RegisteredProperties(last.item.body,
                                                                   last.defs))]

\* `a { --c: #ff0000; }` was read with --c unregistered: the rule is emitted
\* without properties
C13_Witness ==
    /\ ReadsDeclarations
    /\ Len(last.item.body) = 1
    /\ CustomAt(1)
    /\ Len(Emitted) = 1
    /\ Emitted[1].properties = <<>>
    /\ NamePresent(definitions, "--c")

(***************************************************************************)
(* Properties of var() references in a rule's block                        *)
(***************************************************************************)
\* the declaration's value is one var() reference
VarDecl(decl) ==
    /\ Len(decl.tokens) = 1
    /\ decl.tokens[1].t = "Function"
    /\ decl.tokens[1].s = "var"
    /\ decl.tokens[1].args # <<>>
    /\ decl.tokens[1].args[1].t = "Ident"

VarName(decl) == decl.tokens[1].args[1].s

VarFallback(decl) == Rest(decl.tokens[1].args, 2)

\* the registry after the first-sight custom declarations of a block
RECURSIVE CustomsRegistered(_, _)
CustomsRegistered(body, defs) ==
    IF body = <<>> THEN defs
    ELSE IF starts_with_dashes(Head(body).name) /\ ~NamePresent(defs, Head(body).name)
    THEN CustomsRegistered(Tail(body),
            Append(defs, PropertyDefinitionRec(Head(body).name, SyntaxUniversal, FALSE,
                      parse_values(SyntaxUniversal, Head(body).tokens, defs).values)))
    ELSE CustomsRegistered(Tail(body), defs)

\* the registry as it stands when entry k of the block read last is parsed
VarDefsAt(k) == CustomsRegistered(SubSeq(last.item.body, 1, k - 1), last.defs)

\* what the reference at entry k resolves to at that moment: the initial
\* values of a name registered by then, else the fallback, else nothing
Resolves(k) ==
    \/ NamePresent(VarDefsAt(k), VarName(last.item.body[k]))
    \/ VarFallback(last.item.body[k]) # <<>>

Resolved(k) ==
    IF NamePresent(VarDefsAt(k), VarName(last.item.body[k]))
    THEN property_definition(VarDefsAt(k), VarName(last.item.body[k])).def.initial
    ELSE parse_values(SyntaxUniversal, VarFallback(last.item.body[k]), VarDefsAt(k)).values

\* the values fit the syntax of the declaration's property
Fits(k) ==
    validate_syntax(property_definition(last.defs, last.item.body[k].name).def.syntax,
                    Resolved(k), ListFlavor(Resolved(k), FALSE)).ok

\* the rule read last has a block made of custom declarations and of
\* declarations of a registered property whose value is a var() reference
ReadsVarBlock ==
    /\ op \in LoopOps \cup {"panic"}
    /\ last.item.bk = "Rule"
    /\ last.item.hasBlock
    /\ ~SelectorListInvalid(last.item.prelude)
    /\ \A k \in 1..Len(last.item.body) :
          /\ last.item.body[k].bk = "Declaration"
          /\ \/ /\ starts_with_dashes(last.item.body[k].name)
                /\ parse_values(SyntaxUniversal, last.item.body[k].tokens, last.defs).ok
             \/ /\ VarDecl(last.item.body[k])
                /\ NamePresent(last.defs, last.item.body[k].name)
    /\ \E k \in 1..Len(last.item.body) : ~starts_with_dashes(last.item.body[k].name)

\* entry k is a var() declaration
VarEntry(k) == ~starts_with_dashes(last.item.body[k].name)

\* the entries of the block that give the rule a property, in order: the
\* var() declarations and the declarations of custom properties registered
\* by then
PropertyEntries ==
    SelectSeq([k \in 1..Len(last.item.body) |-> k],
              LAMBDA k : VarEntry(k) \/ NamePresent(VarDefsAt(k), last.item.body[k].name))

\* the property entry k gives the rule
ExpectedProperty(k) ==
    IF VarEntry(k)
    THEN Property(last.item.body[k].name,
                  property_definition(last.defs, last.item.body[k].name).def,
                  Resolved(k))
    ELSE parse_value(last.item.body[k].name, last.item.body[k].tokens,
                     VarDefsAt(k)).property

\* C26: a var() reference resolves against the registry as it stands when
\* its declaration is parsed: to the initial values of a name defined
\* earlier, also earlier in the same block; a name defined only later is not
\* visible, so the reference takes its fallback or fails; and the values of
\* the emitted property stay those resolved then
C26_VarResolvesAtParseTime ==
    ReadsVarBlock
        => IF \A k \in 1..Len(last.item.body) : VarEntry(k) => Resolves(k) /\ Fits(k)
           THEN /\ op = "rule"
                /\ Len(Emitted) = Len(last.item.prelude)
                /\ \A r \in 1..Len(Emitted) :
                      Emitted[r].properties
                        = [i \in 1..Len(PropertyEntries) |->
                              ExpectedProperty(PropertyEntries[i])]
           ELSE op = "error"

(***************************************************************************)
(* Properties of the registry when a rule is aborted                       *)
(***************************************************************************)
\* reads a block in source order, nested blocks included, up to the first
\* entry that fails, registering what the entries before it define: the
\* custom declarations of names not registered yet and the nested @property
\* rules
RECURSIVE RegisteredUntilAbort(_, _)
RegisteredUntilAbort(body, defs) ==
    IF body = <<>> THEN [aborted |-> FALSE, defs |-> defs]
    ELSE LET e == Head(body)
         IN IF e.bk = "Declaration"
            THEN LET r == parse_value(e.name, e.tokens, defs)
                 IN IF ~r.ok THEN [aborted |-> TRUE, defs |-> defs]
                    ELSE IF r.kind = "PropertyDefinition"
                    THEN RegisteredUntilAbort(Tail(body),
                             IF NamePresent(defs, r.definition.name) THEN defs
                             ELSE Append(defs, r.definition))
                    ELSE RegisteredUntilAbort(Tail(body), defs)
            ELSE IF e.bk = "Rule"
            THEN IF e.hasBlock /\ SelectorParser_parse(e.prelude, "Nested").ok
                 THEN LET inner == RegisteredUntilAbort(e.body, defs)
                      IN IF inner.aborted THEN inner
                         ELSE RegisteredUntilAbort(Tail(body), inner.defs)
                 ELSE [aborted |-> TRUE, defs |-> defs]
            ELSE LET r == parse_at_rule(e, defs)
                 IN IF ~r.ok \/ r.kind # "PropertyDefinition"
                    THEN [aborted |-> TRUE, defs |-> defs]
                    ELSE RegisteredUntilAbort(Tail(body),
                             IF NamePresent(defs, r.definition.name) THEN defs
                             ELSE Append(defs, r.definition))

\* the step taken last read a qualified rule whose block was aborted by an
\* entry that failed, and recorded the error
AbortedRule ==
    /\ op = "error"
    /\ last.item.bk = "Rule"
    /\ last.item.hasBlock
    /\ SelectorParser_parse(last.item.prelude, "No").ok
    /\ RegisteredUntilAbort(last.item.body, last.defs).aborted

\* C27: when a rule is aborted by an error in a later declaration or in a
\* nested rule, the definitions registered while its block was parsed (the
\* custom declarations seen first and the nested @property rules before the
\* failing entry) remain in the registry, next to everything that was
\* registered before the rule: nothing is rolled back.
C27_NoRollbackOnAbort ==
    AbortedRule
        => definitions = RegisteredUntilAbort(last.item.body, last.defs).defs

\* an aborted rule whose block registered a definition before the failing
\* entry: the name is in the registry now and was not when the rule was read
C27_Witness ==
    /\ AbortedRule
    /\ \E i \in 1..Len(definitions) : ~NamePresent(last.defs, definitions[i].name)

(***************************************************************************)
(* Properties of @property blocks                                          *)
(***************************************************************************)
\* the entry read last is an @property rule with a name and a block
ReadsDefinitionBlock ==
    /\ op \in LoopOps \cup {"panic"}
    /\ last.item.bk = "AtProperty"
    /\ last.item.hasBlock
    /\ last.item.name # ""

\* the definition after all declarations of the block have been processed,
\* whatever their order: whether every declaration's value was understood,
\* the fields they set, and whether one of them left trailing content
RECURSIVE ProcessedDefinition(_, _, _)
ProcessedDefinition(definition, decls, defs) ==
    IF decls = <<>> THEN [ok |-> TRUE, definition |-> definition, trailing |-> FALSE]
    ELSE LET arm == definition_parse_arm(definition, Head(decls).name,
                                         Head(decls).tokens, defs)
         IN IF ~arm.ok THEN [ok |-> FALSE, definition |-> definition, trailing |-> FALSE]
            ELSE LET after == ProcessedDefinition(arm.definition, Tail(decls), defs)
                 IN [ok |-> after.ok, definition |-> after.definition,
                     trailing |-> arm.rest # <<>> \/ after.trailing]

ReadProcessed ==
    ProcessedDefinition(PropertyDefinitionRec(last.item.name, SyntaxEmpty, FALSE, <<>>),
                        last.item.decls, last.defs)

\* C17: an @property block is accepted exactly when, after all of its
\* declarations have been processed, the syntax is not Empty and nothing
\* trails, in whatever order the declarations appear; otherwise, and so for
\* a block without declarations, it is rejected with
\* InvalidPropertyDefinition and registers nothing
C17_AcceptsIffComplete ==
    ReadsDefinitionBlock
        => IF /\ ReadProcessed.ok
              /\ ReadProcessed.definition.syntax.st # "Empty"
              /\ ~ReadProcessed.trailing
           THEN /\ op = "definition"
                /\ NamePresent(definitions, last.item.name)
           ELSE /\ op = "error"
                /\ Len(Recorded) = 1
                /\ Recorded[1].kind = "InvalidPropertyDefinition"
                /\ definitions = last.defs

(***************************************************************************)
(* Properties of the `!important` trailer                                  *)
(***************************************************************************)
\* the declaration's value is followed by `!important`
HasImportant(decl) ==
    /\ Len(decl.tokens) > 2
    /\ BangIndex(decl.tokens, 1) = Len(decl.tokens) - 1
    /\ decl.tokens[Len(decl.tokens)] = TIdent("important")

\* the same declaration without the trailer
WithoutImportant(decl) ==
    IF HasImportant(decl)
    THEN [decl EXCEPT !.tokens = SubSeq(@, 1, Len(@) - 2)]
    ELSE decl

\* the rule read last with every trailer of its declarations removed
ReadWithoutImportant ==
    [last.item EXCEPT !.body = [k \in 1..Len(@) |-> WithoutImportant(@[k])]]

\* the rule read last has a block of declarations, one of them with the
\* trailer, and parses once the trailers are removed
ReadsImportant ==
    /\ op \in LoopOps \cup {"panic"}
    /\ last.item.bk = "Rule"
    /\ last.item.hasBlock
    /\ \A k \in 1..Len(last.item.body) : last.item.body[k].bk = "Declaration"
    /\ \E k \in 1..Len(last.item.body) : HasImportant(last.item.body[k])
    /\ parse_item(ReadWithoutImportant, last.defs, TRUE).res.ok

\* C18: a declaration followed by `!important` parses as the declaration
\* without the trailer does: the value parser stops before `!`, the trailer
\* causes no error, and the rule gets the same properties
C18_ImportantIgnored ==
    ReadsImportant
        => /\ \A k \in 1..Len(last.item.body) :
                HasImportant(last.item.body[k])
                    => parse_values(SyntaxUniversal, last.item.body[k].tokens,
                                    last.defs).rest
                         = <<TBang, TIdent("important")>>
           /\ op = "rule"
           /\ Emitted = from_parsed_rule(
                            parse_item(ReadWithoutImportant, last.defs, TRUE).res.rule)
           /\ definitions = parse_item(ReadWithoutImportant, last.defs, TRUE).defs

(***************************************************************************)
(* Properties of the function registry                                     *)
(***************************************************************************)
\* the function called last and its arguments
CalledFunction == Head(last.tokens).s

CalledArgs == Head(last.tokens).args

Called(name) == op = "check_function" /\ CalledFunction = name

\* the outcome is the custom error of the given kind
FailsWith(out, kind) == ~out.ok /\ out.err.cls = "Custom" /\ out.err.kind = kind

\* C14: var(name[, fallback]) gives the initial values of a registered name
\* with or without a fallback, the fallback parsed under Universal syntax for
\* an unregistered name followed by more input, and UnknownProperty otherwise
C14_VarEvaluates ==
    Called("var")
        => IF NamePresent(last.defs, Head(CalledArgs).s)
           THEN /\ last.out.ok
                /\ last.out.values
                     = property_definition(last.defs, Head(CalledArgs).s).def.initial
           ELSE IF Len(CalledArgs) > 1
           THEN IF parse_values(SyntaxUniversal, Rest(CalledArgs, 2), last.defs).ok
                THEN /\ last.out.ok
                     /\ last.out.values
                          = parse_values(SyntaxUniversal, Rest(CalledArgs, 2),
                                         last.defs).values
                ELSE ~last.out.ok
           ELSE FailsWith(last.out, "UnknownProperty")

\* the colour a colour argument stands for
ArgColor(token) == ColorFromValue(Head(parse_color(<<token>>).values))

\* mix was called with two colours and a number
CalledMix ==
    /\ Called("mix")
    /\ Len(CalledArgs) = 5
    /\ parse_color(<<CalledArgs[1]>>).ok
    /\ parse_color(<<CalledArgs[3]>>).ok
    /\ CalledArgs[5].t = "Number"

\* C15: mix(c1, c2, n) returns the single value
\* Modified{color: c1, operation: Mix{other: c2, amount: n}}
C15_MixIsLazyModified ==
    CalledMix
        => /\ last.out.ok
           /\ last.out.values
                = <<VColor(ColorModified(ArgColor(CalledArgs[1]),
                                         OperationMix(ArgColor(CalledArgs[3]),
                                                      CalledArgs[5].n)))>>

\* the operation modify-color(<color> <op> <arg>) stands for, for the
\* operations of the function tests
CalledOperation ==
    IF CalledArgs[2].s = "add" THEN OperationAdd(ArgColor(CalledArgs[3]))
    ELSE OperationSetAlpha((CalledArgs[3].n * 255) \div 10)

\* C16: modify-color is a built-in of the registry and yields the single
\* colour Modified{color, operation}
C16_ModifyColorBuiltIn ==
    Called("modify-color")
        => /\ CalledFunction \in property_functions
           /\ last.out.ok
           /\ last.out.values
                = <<VColor(ColorModified(ArgColor(CalledArgs[1]), CalledOperation))>>

\* an argument of the called function is a call of a function that is not
\* in the registry, and the called function parses it
ParsesUnknownArgument ==
    \/ /\ CalledFunction = "mix"
       /\ CalledArgs # <<>>
       /\ Head(CalledArgs).t = "Function"
       /\ Head(CalledArgs).s \notin property_functions
    \/ /\ CalledFunction = "var"
       /\ Len(CalledArgs) > 2
       /\ ~NamePresent(last.defs, Head(CalledArgs).s)
       /\ CalledArgs[3].t = "Function"
       /\ CalledArgs[3].s \notin property_functions

\* C24: a function component whose name, or a function among the arguments
\* it parses, is not in the registry fails with UnknownFunction, and the
\* component hands that error on unchanged; every other failure of a
\* registered function becomes InvalidPropertyValue; a success is passed on
C24_OnlyUnknownFunctionPropagates ==
    op = "check_function"
        => /\ CalledFunction \notin property_functions \/ ParsesUnknownArgument
                => /\ FailsWith(last.out, "UnknownFunction")
                   /\ last.component = last.out
           /\ ~last.out.ok /\ ~FailsWith(last.out, "UnknownFunction")
                => last.component
                     = parse_error("InvalidPropertyValue", "Could not parse input")
           /\ last.out.ok => last.component = last.out

\* var(--d) was parsed with --d unregistered: var's UnknownProperty reached
\* the caller as InvalidPropertyValue
C24_Witness ==
    /\ Called("var")
    /\ FailsWith(last.out, "UnknownProperty")
    /\ FailsWith(last.component, "InvalidPropertyValue")

(***************************************************************************)
(* Properties of the value parser, the validator and the functions         *)
(***************************************************************************)
\* the value list the checked input parses to, before validation
CheckedList ==
    parse_values_loop(SubSeq(last.tokens, 1, BangIndex(last.tokens, 1) - 1),
                      last.defs, <<>>, FALSE)

CheckedFlavor ==
    IF ListFlavor(CheckedList.values, CheckedList.comma_separated) = "Single"
    THEN "NotAList"
    ELSE ListFlavor(CheckedList.values, CheckedList.comma_separated)

CheckedSyntax == parse_syntax(last.s).syntax

\* the data-type matchers of the grammar
DataTypeMatches(d, value) ==
    CASE d = "Length" -> value.vt = "Dimension" /\ is_length(value)
      [] d = "Number" -> value.vt = "Dimension" /\ is_number(value)
      [] d = "Percentage" -> value.vt = "Dimension" /\ is_percent(value)
      [] d = "LengthPercentage" ->
            value.vt = "Dimension" /\ (is_length(value) \/ is_percent(value))
      [] d = "Angle" -> value.vt = "Dimension" /\ is_angle(value)
      [] d = "String" -> value.vt = "String"
      [] d = "Color" -> value.vt = "Color"
      [] d = "Integer" -> value.vt = "Integer"
      [] d = "Url" -> value.vt = "Url"
      [] OTHER -> FALSE

\* length of the longest run of leading values of type d, capped at cap
RECURSIVE LongestRun(_, _, _)
LongestRun(d, values, cap) ==
    IF values = <<>> \/ cap = 0 THEN 0
    ELSE IF DataTypeMatches(d, Head(values))
    THEN 1 + LongestRun(d, Tail(values), cap - 1)
    ELSE 0

\* what a component derives from the front of values: a list takes the
\* longest run and leaves the first non-matching value to what follows
DerivesComponent(c, values, list_type) ==
    CASE c.ck = "DataType" ->
            IF values # <<>> /\ DataTypeMatches(c.d, Head(values))
            THEN VOk(Tail(values)) ELSE VErr("")
      [] c.ck = "Keyword" ->
            IF values # <<>> /\ Head(values) = VString(c.k)
            THEN VOk(Tail(values)) ELSE VErr("")
      [] c.ck = "Comma" -> VOk(values)
      [] c.ck = "SpaceSeparatedList" ->
            IF list_type = "CommaSeparated" THEN VErr("")
            ELSE VOk(Rest(values, LongestRun(c.d, values, Len(values))))
      [] c.ck = "CommaSeparatedList" ->
            IF list_type = "SpaceSeparated" THEN VErr("")
            ELSE VOk(Rest(values, LongestRun(c.d, values, Len(values))))
      [] c.ck = "Repeat" ->
            IF list_type = "CommaSeparated" THEN VErr("")
            ELSE IF LongestRun(c.d, values, c.maximum) < c.minimum THEN VErr("")
            ELSE VOk(Rest(values, LongestRun(c.d, values, c.maximum)))

RECURSIVE DerivesExpression(_, _, _)
RECURSIVE DerivesAlternatives(_, _, _)
RECURSIVE DerivesGroup(_, _, _)
RECURSIVE DerivesFirstGroup(_, _, _)

DerivesGroup(group, values, list_type) ==
    IF group.gk = "Component"
    THEN DerivesComponent(group.comp, values, list_type)
    ELSE DerivesExpression(group.alts, values, list_type)

\* `|`: the first group, in source order, that derives a prefix
DerivesFirstGroup(groups, values, list_type) ==
    IF groups = <<>> THEN VErr("")
    ELSE IF DerivesGroup(Head(groups), values, list_type).ok
    THEN DerivesGroup(Head(groups), values, list_type)
    ELSE DerivesFirstGroup(Tail(groups), values, list_type)

DerivesAlternatives(alternatives, values, list_type) ==
    CASE alternatives.ak = "Component" ->
            DerivesComponent(alternatives.comp, values, list_type)
      [] alternatives.ak = "Group" ->
            DerivesGroup(alternatives.group, values, list_type)
      [] alternatives.ak = "Alternatives" ->
            DerivesFirstGroup(alternatives.groups, values, list_type)

\* a sequence of alternatives, each deriving the next part of the values;
\* every element needs values left to start from
DerivesExpression(expression, values, list_type) ==
    IF expression = <<>> THEN VOk(values)
    ELSE IF values = <<>> THEN VErr("")
    ELSE IF DerivesAlternatives(Head(expression), values, list_type).ok
    THEN DerivesExpression(Tail(expression),
                           DerivesAlternatives(Head(expression), values, list_type).remain,
                           list_type)
    ELSE VErr("")

\* the value list is derivable from the grammar the syntax denotes
Derivable(syntax, values, list_type) ==
    \/ syntax.st = "Universal"
    \/ /\ syntax.st = "Expression"
       /\ DerivesExpression(syntax.alts, values, list_type).ok
       /\ DerivesExpression(syntax.alts, values, list_type).remain = <<>>

\* C11: for every accepted syntax string and every value list, parse_values
\* succeeds if and only if the list is derivable from the grammar of the
\* syntax string
C11_SucceedsIffDerivable ==
    (op = "check_value" /\ CheckedList.ok)
        => (last.out.ok <=> Derivable(CheckedSyntax, CheckedList.values, CheckedFlavor))

\* the first element of the checked syntax, when it is a list or a repeat
LeadingList == Head(CheckedSyntax.alts).comp

ChecksLeadingList ==
    /\ op = "check_value"
    /\ CheckedList.ok
    /\ CheckedSyntax.st = "Expression"
    /\ Head(CheckedSyntax.alts).ak = "Component"
    /\ LeadingList.ck \in {"SpaceSeparatedList", "CommaSeparatedList", "Repeat"}

\* C19: a list or repeat component consumes the longest run of leading
\* values of its data type (capped at max for a repeat) and leaves the first
\* non-matching value to the following components; a repeat fails only when
\* the run is shorter than min
C19_ListStopsAtFirstMismatch ==
    ChecksLeadingList
        => /\ validate_component(LeadingList, CheckedList.values, CheckedFlavor).ok
                = DerivesComponent(LeadingList, CheckedList.values, CheckedFlavor).ok
           /\ validate_component(LeadingList, CheckedList.values, CheckedFlavor).ok
                => validate_component(LeadingList, CheckedList.values, CheckedFlavor).remain
                    = DerivesComponent(LeadingList, CheckedList.values, CheckedFlavor).remain

\* the walk of validate_syntax over the top-level expression: what is left
\* of the expression and of the values when it stops, and whether an
\* element failed to validate
RECURSIVE WalkEnd(_, _, _)
WalkEnd(expression, values, list_type) ==
    IF expression = <<>> \/ values = <<>>
    THEN [expression |-> expression, values |-> values, failed |-> FALSE]
    ELSE IF validate_alternatives(Head(expression), values, list_type).ok
    THEN WalkEnd(Tail(expression),
                 validate_alternatives(Head(expression), values, list_type).remain,
                 list_type)
    ELSE [expression |-> expression, values |-> values, failed |-> TRUE]

CheckedWalk == WalkEnd(CheckedSyntax.alts, CheckedList.values, CheckedFlavor)

ChecksExpression ==
    op = "check_value" /\ CheckedList.ok /\ CheckedSyntax.st = "Expression"

\* C20: validate_syntax accepts a value list against an Expression only when
\* the walk visits every element and consumes every value; when the values
\* run out while elements remain, or values remain after the last element,
\* the result is an error of kind PropertyValueDoesNotMatchSyntax
C20_WalkMustExhaustBoth ==
    ChecksExpression
        => /\ last.out.ok
                => (~CheckedWalk.failed /\ CheckedWalk.expression = <<>>
                    /\ CheckedWalk.values = <<>>)
           /\ (~CheckedWalk.failed
               /\ (CheckedWalk.expression # <<>> \/ CheckedWalk.values # <<>>))
                => (~last.out.ok /\ last.out.err.cls = "Custom"
                    /\ last.out.err.kind = "PropertyValueDoesNotMatchSyntax")

\* a value ran out of values with an element of the expression left (and,
\* in another state, values were left over), and the call failed
C20_Witness ==
    /\ ChecksExpression
    /\ ~CheckedWalk.failed
    /\ CheckedWalk.expression # <<>>
    /\ CheckedList.values # <<>>
    /\ ~last.out.ok

(***************************************************************************)
(* Properties of unitless numbers                                          *)
(***************************************************************************)
\* the value parser was run on number tokens alone
NumericInput ==
    /\ op = "check_value"
    /\ last.tokens # <<>>
    /\ \A i \in 1..Len(last.tokens) : last.tokens[i].t = "Number"

\* C30: a number token with an integer representation is parsed as an
\* Integer value, because the integer parser is tried before the number
\* parser, and only a number token without one becomes a Number dimension;
\* so the former is accepted by `<integer>` and rejected by `<number>`, the
\* latter is accepted by `<number>` and rejected by `<integer>`.
C30_IntegerBeforeNumber ==
    NumericInput
        => /\ last.s = "universal"
                => /\ last.out.ok
                   /\ last.out.values
                        = [i \in 1..Len(last.tokens) |->
                              IF last.tokens[i].int
                              THEN VInteger(last.tokens[i].n)
                              ELSE VDimension(last.tokens[i].n, "Number")]
           /\ (Len(last.tokens) = 1 /\ last.s = "<integer>")
                => /\ last.out.ok <=> last.tokens[1].int
                   /\ ~last.out.ok => FailsWith(last.out, "PropertyValueDoesNotMatchSyntax")
           /\ (Len(last.tokens) = 1 /\ last.s = "<number>")
                => /\ last.out.ok <=> ~last.tokens[1].int
                   /\ ~last.out.ok => FailsWith(last.out, "PropertyValueDoesNotMatchSyntax")

\* `24` was checked against `<number>` and rejected
C30_Witness ==
    /\ NumericInput
    /\ last.s = "<number>"
    /\ last.tokens = <<TNumber(24, TRUE)>>
    /\ ~last.out.ok

(***************************************************************************)
(* Properties of the list flavours                                         *)
(***************************************************************************)
\* the components of the checked input: its tokens other than commas
CheckedComponents == SelectSeq(last.tokens, LAMBDA token : token.t # "Comma")

\* a comma stands between two components of the checked input
CommaBetween ==
    \E i \in 2..(Len(last.tokens) - 1) : last.tokens[i].t = "Comma"

NoComma == \A i \in 1..Len(last.tokens) : last.tokens[i].t # "Comma"

\* the checked input parses to a value list
ChecksList == op = "check_value" /\ CheckedList.ok

\* the syntaxes made of one list component
ListSyntaxes == {"<length>#", "lengths", "<length>{1,2}"}

FlavorRejected(out, msg) ==
    /\ FailsWith(out, "PropertyValueDoesNotMatchSyntax")
    /\ out.err.msg = msg

RECURSIVE Replaced(_, _)
Replaced(N, P) ==
    IF N = <<>> THEN <<>>
    ELSE (IF Head(N).kind = "RelativeParent" THEN P ELSE <<Head(N)>>)
         \o Replaced(Tail(N), P)

\* the number of RelativeParent parts of N
CountRelative(N) == Cardinality({i \in 1..Len(N) : N[i].kind = "RelativeParent"})

\* C22: combine(N, P) for a non-empty P is N with every RelativeParent
\* replaced in place and in order by P's parts, of length
\* |N| + k * (|P| - 1) for k >= 1 RelativeParent parts; N's parts followed
\* by P's when N has none; and N unchanged when P is empty
C22_CombineReplacesInPlace ==
    op = "combine"
        => IF last.second = <<>> THEN last.out = last.first
           ELSE IF CountRelative(last.first) = 0
           THEN last.out = last.first \o last.second
           ELSE /\ last.out = Replaced(last.first, last.second)
                /\ Len(last.out) = Len(last.first)
                        + CountRelative(last.first) * (Len(last.second) - 1)

\* a nested selector with two RelativeParent parts was combined with an
\* enclosing selector of two parts
C22_Witness ==
    /\ op = "combine"
    /\ CountRelative(last.first) = 2
    /\ Len(last.second) = 2
    /\ Len(last.out) = Len(last.first) + 2

\* the parts of a source selector, component by component from left to right
RECURSIVE SourceOrderParts(_)
SourceOrderParts(entry) ==
    IF entry = <<>> THEN <<>>
    ELSE (IF Head(entry).sk = "Combinator"
          THEN CombinatorPart(Head(entry)) ELSE ComponentPart(Head(entry)))
         \o SourceOrderParts(Tail(entry))

\* C23: SelectorParser::parse gives one selector per prelude entry, in
\* prelude order, whose parts are those of the entry's components and
\* combinators in left-to-right source order (after the `&` and descendant
\* combinator the library puts before a nested selector without `&`)
C23_PartsInSourceOrder ==
    op = "check_selector"
        => /\ last.out.ok
           /\ Len(last.out.selectors) = Len(last.prelude)
           /\ \A i \in 1..Len(last.prelude) :
                last.out.selectors[i]
                    = SourceOrderParts(NestingPrefix(last.prelude[i], last.relative))

\* `type:hovered > .class` was parsed: a compound of two simple selectors,
\* a combinator and another compound
C23_Witness ==
    /\ op = "check_selector"
    /\ last.prelude = <<<<SComp("LocalName", "type"), SComp("NonTSPseudoClass", "hovered"),
                          SCombinator("Child")>>
                        \o <<SComp("Class", "class")>>>>
    /\ Len(last.out.selectors[1]) = 4
    /\ last.out.selectors[1][2].kind = "PseudoClass"

(***************************************************************************)
(* Properties of the registry under concurrent calls                       *)
(***************************************************************************)
\* the threads whose add_property_definition for name returned ret
AddsReturned(name, ret) ==
    {t \in Threads : /\ threads[t].pc = "done" /\ threads[t].fn = "add"
                     /\ threads[t].arg.name = name /\ threads[t].ret = ret}

\* the entries of the registry with the given name
EntriesFor(name) == {i \in 1..Len(definitions) : definitions[i].name = name}

\* C12: concurrent add_property_definition and property_definition calls for
\* a name are serialized: at most one add returns true (exactly one once
\* every add has returned), the registry holds at most one entry for the name
\* (exactly one once an add has returned), that entry is the winner's
\* definition, and every lookup returned None or the winner's definition
C12_ConcurrentAddsSerialized ==
    \A name \in LookupNames :
        /\ Cardinality(AddsReturned(name, TRUE)) <= 1
        /\ Cardinality(EntriesFor(name)) <= 1
        /\ Cardinality(EntriesFor(name)) = Cardinality(AddsReturned(name, TRUE))
        /\ (AddsReturned(name, TRUE) \cup AddsReturned(name, FALSE)) # {}
                => Cardinality(EntriesFor(name)) = 1
        /\ \A t \in AddsReturned(name, TRUE) :
                property_definition(definitions, name).def = threads[t].arg
        /\ \A t \in Threads :
                (threads[t].pc = "done" /\ threads[t].fn = "get"
                 /\ threads[t].arg = name /\ threads[t].ret.some)
                    => threads[t].ret = property_definition(definitions, name)

\* three threads raced on one name: two adds with different definitions
\* returned, and a lookup returned the winner
C12_Witness ==
    /\ Cardinality(AddsReturned("test", TRUE)) = 1
    /\ Cardinality(AddsReturned("test", FALSE)) = 1
    /\ \E t \in AddsReturned("test", TRUE), u \in AddsReturned("test", FALSE) :
            threads[t].arg # threads[u].arg
    /\ \E t \in Threads : /\ threads[t].pc = "done" /\ threads[t].fn = "get"
                          /\ threads[t].arg = "test" /\ threads[t].ret.some

====
